---- MODULE Spec2Model ----
(***************************************************************************)
(* A model of liekoDB's local engine (src/unnamed/part_002, the second,    *)
(* current copy of liekodb.js starting at line 1399): the QueryEngine      *)
(* (filter evaluation, query cache, update operators) and the LocalAdapter *)
(* (collections, idIndex, secondary indexes, debounced snapshots, close).  *)
(*                                                                         *)
(* JavaScript values are tagged records [t, v]; an object is the ordered   *)
(* list of its entries [k, v], as Object.keys / Object.entries see it.     *)
(* Documents are objects with identity: they live in `heap` under an       *)
(* address, and data, the query cache and the callers hold addresses.      *)
(***************************************************************************)
EXTENDS Integers, Sequences, FiniteSets, TLC

(***************************************************************************)
(* Bounds of the model.                                                    *)
(***************************************************************************)
MaxDocs == 2
MaxClock == 1
MaxPositions == 2

(***************************************************************************)
(* JavaScript values.                                                      *)
(***************************************************************************)
Undef == [t |-> "undefined", v |-> 0]
Null == [t |-> "null", v |-> 0]
Num(n) == [t |-> "number", v |-> n]
Str(s) == [t |-> "string", v |-> s]
Bool(b) == [t |-> "boolean", v |-> b]
Arr(s) == [t |-> "array", v |-> s]
Obj(o) == [t |-> "object", v |-> o]
E(k, v) == [k |-> k, v |-> v]

\* typeof x === 'object' (true of null and of arrays as well)
TypeofObject(x) == x.t \in {"object", "array", "null"}

\* !!x
Truthy(x) ==
    CASE x.t = "undefined" -> FALSE
      [] x.t = "null" -> FALSE
      [] x.t = "number" -> x.v # 0
      [] x.t = "string" -> x.v # ""
      [] x.t = "boolean" -> x.v
      [] OTHER -> TRUE

\* a === b. Objects and arrays are equal only to themselves; a value held in
\* a document and a literal of a request are never the same object.
StrictEq(a, b) ==
    /\ a.t = b.t
    /\ a.t \in {"undefined", "null", "number", "string", "boolean"}
    /\ a.v = b.v

\* arr.includes(x) for the elements s of an array
Includes(s, x) == \E i \in 1..Len(s) : StrictEq(s[i], x)

\* obj[k], k in obj, obj[k] = v, delete obj[k] on the entries o of an object
Has(o, k) == \E i \in 1..Len(o) : o[i].k = k
Get(o, k) == IF Has(o, k) THEN o[CHOOSE i \in 1..Len(o) : o[i].k = k].v ELSE Undef
Put(o, k, v) ==
    IF Has(o, k)
    THEN [i \in 1..Len(o) |-> IF o[i].k = k THEN E(k, v) ELSE o[i]]
    ELSE Append(o, E(k, v))
Del(o, k) == SelectSeq(o, LAMBDA e : e.k # k)

\* Object.assign(target, source) on entries
RECURSIVE Assign(_, _)
Assign(target, source) ==
    IF source = <<>> THEN target
    ELSE Assign(Put(target, Head(source).k, Head(source).v), Tail(source))

\* path.split('.') on the field paths the model uses
split(path) ==
    CASE path = "n.b" -> <<"n", "b">>
      [] path = "a.b" -> <<"a", "b">>
      [] path = "n.b.c" -> <<"n", "b", "c">>
      [] OTHER -> <<path>>

\* String(docId)
String(x) == IF x.t = "number" THEN Str(ToString(x.v)) ELSE x

\* Number.prototype.toString(36)
Digits36 == <<"0", "1", "2", "3", "4", "5", "6", "7", "8", "9", "a", "b",
              "c", "d", "e", "f", "g", "h", "i", "j", "k", "l", "m", "n",
              "o", "p", "q", "r", "s", "t", "u", "v", "w", "x", "y", "z">>
RECURSIVE toString36(_)
toString36(n) ==
    IF n < 36 THEN Digits36[n + 1]
    ELSE toString36(n \div 36) \o Digits36[(n % 36) + 1]

\* the wall clock: Date.now() is EpochBase + clock, new Date().toISOString()
\* the ISO string of that instant
EpochBase == 46655
DateNow(clock) == EpochBase + clock
toISOString(clock) == "2026-01-01T00:00:00.00" \o ToString(clock) \o "Z"

(***************************************************************************)
(* QueryEngine: path resolution and filter evaluation.                     *)
(***************************************************************************)
\* parseInt(p, 10) of a path segment; -1 stands for NaN
parseInt(p) ==
    CASE p = "0" -> 0
      [] p = "1" -> 1
      [] p = "2" -> 2
      [] OTHER -> -1

\* cur[p] for a value cur that is not an array
Prop(cur, p) == IF cur.t = "object" THEN Get(cur.v, p) ELSE Undef

\* the array the traversal of an array collects: defined results, arrays
\* flattened one level
RECURSIVE Collect(_)
Collect(vs) ==
    IF vs = <<>> THEN <<>>
    ELSE LET v == Head(vs)
         IN  (IF v.t = "undefined" THEN <<>>
              ELSE IF v.t = "array" THEN v.v
              ELSE <<v>>) \o Collect(Tail(vs))

RECURSIVE getParts(_, _)
getParts(cur, parts) ==
    IF parts = <<>> THEN cur
    ELSE IF cur.t = "array"
    THEN LET idx == parseInt(Head(parts))
         IN  IF idx >= 0 /\ idx < Len(cur.v)
             THEN getParts(cur.v[idx + 1], Tail(parts))
             ELSE LET results ==
                          Collect([i \in 1..Len(cur.v) |->
                                      IF Len(parts) = 1
                                      THEN Prop(cur.v[i], parts[1])
                                      ELSE getParts(cur.v[i], parts)])
                  IN  IF Len(results) > 0 THEN Arr(results) ELSE Undef
    ELSE IF cur.t \in {"null", "undefined"} \/ ~TypeofObject(cur) THEN Undef
    ELSE getParts(Get(cur.v, Head(parts)), Tail(parts))

\* getValue(item, path): item is a document (the entries of an object)
getValue(item, path) ==
    IF Len(split(path)) = 1 THEN Get(item, path)
    ELSE getParts(Obj(item), split(path))

\* key.startsWith('$') on the keys the model uses
startsWithDollar(key) ==
    key \in {"$and", "$or", "$nor", "$not", "$eq", "$ne", "$gt", "$gte", "$lt",
             "$lte", "$in", "$nin", "$exists", "$regex", "$options", "$mod",
             "$set", "$unset", "$inc", "$push", "$pull", "$addToSet", "$each"}

\* the strings the model compares with < and >, in the order of their code
\* units: the timestamps, then the ids
Collation ==
    <<"1999-01-01T00:00:00.000Z">>
    \o [c \in 1..(MaxClock + 1) |-> toISOString(c - 1)]
    \o <<"x", "y">>
StringLt(a, b) ==
    \E i, j \in 1..Len(Collation) : Collation[i] = a /\ Collation[j] = b /\ i < j

\* a > b, a < b between two numbers or two strings of the model (false
\* between the other types the model compares)
JsLt(a, b) ==
    \/ a.t = "number" /\ b.t = "number" /\ a.v < b.v
    \/ a.t = "string" /\ b.t = "string" /\ StringLt(a.v, b.v)
JsGt(a, b) == JsLt(b, a)
JsGte(a, b) == JsGt(a, b) \/ (a.t \in {"number", "string"} /\ a.t = b.t /\ a.v = b.v)
JsLte(a, b) == JsLt(a, b) \/ (a.t \in {"number", "string"} /\ a.t = b.t /\ a.v = b.v)

\* new RegExp(pattern, flags).test(s) on the patterns and the strings of
\* the model: a single letter, with the flag i or without a flag
RegExpTest(pattern, flags, s) ==
    CASE pattern = "X" /\ flags = "i" -> s = "x"
      [] pattern = "x" -> s = "x"
      [] pattern = "y" -> s = "y"
      [] OTHER -> FALSE

\* one operator of matchesOperators on a defined value: "fail" is return
\* false, "next" goes on with the next entry; options is ops.$options
OperatorStep(actual, op, expected, options) ==
    LET elems == IF actual.t = "array" THEN actual.v ELSE <<actual>>
        some(P(_)) == \E i \in 1..Len(elems) : P(elems[i])
        ok ==
            CASE op = "$eq" -> some(LAMBDA x : StrictEq(x, expected))
              [] op = "$ne" -> ~some(LAMBDA x : StrictEq(x, expected))
              [] op = "$gt" -> some(LAMBDA x : JsGt(x, expected))
              [] op = "$gte" -> some(LAMBDA x : JsGte(x, expected))
              [] op = "$lt" -> some(LAMBDA x : JsLt(x, expected))
              [] op = "$lte" -> some(LAMBDA x : JsLte(x, expected))
              [] op = "$in" -> some(LAMBDA x : Includes(expected.v, x))
              [] op = "$nin" -> ~some(LAMBDA x : Includes(expected.v, x))
              [] op = "$exists" -> ~(expected = Bool(FALSE))
              [] op = "$regex" ->
                    some(LAMBDA x :
                             RegExpTest(expected.v,
                                        IF Truthy(options) THEN options.v ELSE "",
                                        String(x).v))
              [] op = "$mod" ->
                    /\ expected.t = "array" /\ Len(expected.v) = 2
                    /\ some(LAMBDA x : x.t = "number"
                                       /\ x.v % expected.v[1].v = expected.v[2].v)
              [] OTHER -> TRUE
    IN  IF ok THEN "next" ELSE "fail"

\* the loop of matchesOperators over the entries rest of ops
RECURSIVE OperatorsLoop(_, _, _)
OperatorsLoop(actual, rest, ops) ==
    IF rest = <<>> THEN TRUE
    ELSE LET op == Head(rest).k
             expected == Head(rest).v
         IN  IF op = "$options" THEN OperatorsLoop(actual, Tail(rest), ops)
             ELSE IF actual.t = "undefined"
             THEN CASE op = "$exists" ->
                          IF expected = Bool(TRUE) THEN FALSE
                          ELSE IF expected = Bool(FALSE) THEN TRUE
                          ELSE OperatorsLoop(actual, Tail(rest), ops)
                    [] op = "$ne" -> TRUE
                    [] OTHER -> FALSE
             ELSE IF op = "$not" THEN ~OperatorsLoop(actual, expected.v, expected.v)
             ELSE IF OperatorStep(actual, op, expected, Get(ops, "$options")) = "fail"
             THEN FALSE
             ELSE OperatorsLoop(actual, Tail(rest), ops)

matchesOperators(actual, ops) == OperatorsLoop(actual, ops, ops)

\* the loop of matchesFilter over the keys that are not operators
RECURSIVE matchesFields(_, _)
matchesFields(item, entries) ==
    IF entries = <<>> THEN TRUE
    ELSE LET key == Head(entries).k
             expected == Head(entries).v
             value == getValue(item, key)
         IN  IF startsWithDollar(key)
             THEN matchesFields(item, Tail(entries))
             ELSE IF expected.t = "object"
             THEN matchesOperators(value, expected.v)
                  /\ matchesFields(item, Tail(entries))
             ELSE IF value.t = "array"
             THEN Includes(value.v, expected) /\ matchesFields(item, Tail(entries))
             ELSE StrictEq(value, expected) /\ matchesFields(item, Tail(entries))

\* matchesFilter(item, filter): filter is a value, item the entries of a doc
RECURSIVE matchesFilter(_, _)
matchesFilter(item, filter) ==
    IF ~Truthy(filter) THEN TRUE
    ELSE IF Truthy(Get(filter.v, "$and"))
    THEN \A i \in 1..Len(Get(filter.v, "$and").v) :
             matchesFilter(item, Get(filter.v, "$and").v[i])
    ELSE IF Truthy(Get(filter.v, "$or"))
    THEN \E i \in 1..Len(Get(filter.v, "$or").v) :
             matchesFilter(item, Get(filter.v, "$or").v[i])
    ELSE IF Truthy(Get(filter.v, "$nor"))
    THEN ~\E i \in 1..Len(Get(filter.v, "$nor").v) :
              matchesFilter(item, Get(filter.v, "$nor").v[i])
    ELSE IF Truthy(Get(filter.v, "$not"))
    THEN ~matchesFilter(item, Get(filter.v, "$not"))
    ELSE matchesFields(item, filter.v)

\* Object.keys(filter).length === 0 or no filter at all
EmptyFilter(filter) == ~Truthy(filter) \/ filter.v = <<>>

\* queryCache as the Map keeps it: entries [key, results] in insertion
\* order; the key is JSON.stringify(filter) + data.length
cacheSize == 1000
CacheKey(filter, data) == <<filter, Len(data)>>
CacheHas(cache, key) == \E i \in 1..Len(cache) : cache[i].key = key
CacheGet(cache, key) == cache[CHOOSE i \in 1..Len(cache) : cache[i].key = key].results

\* data.filter(item => this.matchesFilter(item, filter)) over addresses
Filtered(h, data, filter) == SelectSeq(data, LAMBDA a : matchesFilter(h[a], filter))

\* applyFilters(data, filter): the list it returns and the cache it leaves
applyFilters(h, cache, data, filter) ==
    IF EmptyFilter(filter) THEN [results |-> data, cache |-> cache]
    ELSE IF CacheHas(cache, CacheKey(filter, data))
    THEN [results |-> CacheGet(cache, CacheKey(filter, data)), cache |-> cache]
    ELSE LET results == Filtered(h, data, filter)
             room == IF Len(cache) >= cacheSize THEN Tail(cache) ELSE cache
         IN  [results |-> results,
              cache |-> Append(room, [key |-> CacheKey(filter, data),
                                      results |-> results])]

(***************************************************************************)
(* QueryEngine.applyUpdateToDoc. A document under update is [doc, threw]:  *)
(* its entries so far and whether a TypeError has been raised (which ends  *)
(* the call and leaves what was assigned before it).                       *)
(***************************************************************************)
\* the switch of applyNestedOperation on current[lastPart], current an object
LeafOperation(cur, lastPart, operation, value) ==
    LET old == Get(cur, lastPart)
        arr == IF old.t = "array" THEN old.v ELSE <<>>
    IN  CASE operation = "set" -> Put(cur, lastPart, value)
          [] operation = "unset" -> Del(cur, lastPart)
          [] operation = "inc" ->
                Put(cur, lastPart,
                    Num((IF old.t = "number" THEN old.v ELSE 0) + value.v))
          [] operation = "push" -> Put(cur, lastPart, Arr(Append(arr, value)))
          [] operation = "addToSet" ->
                Put(cur, lastPart,
                    Arr(IF Includes(arr, value) THEN arr ELSE Append(arr, value)))
          [] operation = "pull" ->
                IF old.t = "array"
                THEN Put(cur, lastPart,
                         Arr(SelectSeq(arr, LAMBDA item : ~StrictEq(item, value))))
                ELSE cur
          [] OTHER -> cur

\* applyNestedOperation from `current` = cur on: the value cur becomes and
\* whether the walk threw. null passes the typeof test of the loop, and the
\* next property access on it is a TypeError. An array on the path is left
\* as it is (a property set on an array is not an element of it).
RECURSIVE applyNestedOperation(_, _, _, _)
applyNestedOperation(cur, parts, operation, value) ==
    IF cur.t = "null" THEN [val |-> cur, threw |-> TRUE]
    ELSE IF cur.t # "object" THEN [val |-> cur, threw |-> FALSE]
    ELSE IF Len(parts) = 1
    THEN [val |-> Obj(LeafOperation(cur.v, parts[1], operation, value)),
          threw |-> FALSE]
    ELSE LET part == Head(parts)
             child == IF Get(cur.v, part).t = "undefined"
                         \/ ~TypeofObject(Get(cur.v, part))
                      THEN Obj(<<>>)
                      ELSE Get(cur.v, part)
             rec == applyNestedOperation(child, Tail(parts), operation, value)
         IN  [val |-> Obj(Put(cur.v, part, rec.val)), threw |-> rec.threw]

\* one entry k: v of an operator of the update, applied to the document
ApplyEntry(doc, operation, k, v) ==
    IF Len(split(k)) > 1
    THEN LET r == applyNestedOperation(Obj(doc), split(k), operation, v)
         IN  [doc |-> r.val.v, threw |-> r.threw]
    ELSE LET old == Get(doc, k)
             arr == IF old.t = "array" THEN old.v ELSE <<>>
             each == IF Truthy(v) /\ v.t = "object" /\ Truthy(Get(v.v, "$each"))
                     THEN Get(v.v, "$each").v ELSE <<v>>
             addAll[i \in 0..Len(each)] ==
                 IF i = 0 THEN arr
                 ELSE IF Includes(addAll[i - 1], each[i]) THEN addAll[i - 1]
                 ELSE Append(addAll[i - 1], each[i])
             pulled(item) ==
                 IF v.t = "object" /\ Truthy(Get(v.v, "$in"))
                 THEN Includes(Get(v.v, "$in").v, item)
                 ELSE StrictEq(item, v)
         IN  CASE operation = "set" -> [doc |-> Put(doc, k, v), threw |-> FALSE]
               [] operation = "unset" -> [doc |-> Del(doc, k), threw |-> FALSE]
               [] operation = "inc" ->
                     [doc |-> Put(doc, k, Num((IF old.t = "number" THEN old.v
                                               ELSE 0) + v.v)),
                      threw |-> FALSE]
               [] operation = "push" ->
                     [doc |-> Put(doc, k, Arr(Append(arr, v))), threw |-> FALSE]
               [] operation = "addToSet" ->
                     [doc |-> Put(doc, k, Arr(addAll[Len(each)])), threw |-> FALSE]
               [] operation = "pull" ->
                     IF old.t = "array" /\ arr # <<>> /\ v.t = "null"
                     THEN [doc |-> doc, threw |-> TRUE]
                     ELSE IF old.t = "array"
                     THEN [doc |-> Put(doc, k, Arr(SelectSeq(arr,
                                         LAMBDA item : ~pulled(item)))),
                           threw |-> FALSE]
                     ELSE [doc |-> doc, threw |-> FALSE]
               [] OTHER -> [doc |-> doc, threw |-> FALSE]

\* the for loop over the entries of one operator
RECURSIVE ApplyEntries(_, _, _)
ApplyEntries(st, operation, entries) ==
    IF st.threw \/ entries = <<>> THEN st
    ELSE ApplyEntries(ApplyEntry(st.doc, operation, Head(entries).k,
                                 Head(entries).v),
                      operation, Tail(entries))

\* if (update.$op) { for (... of Object.entries(update.$op)) ... }
ApplyOperator(st, update, key, operation) ==
    IF Truthy(Get(update, key)) /\ Get(update, key).t = "object"
    THEN ApplyEntries(st, operation, Get(update, key).v)
    ELSE st

hasRootLevelOperators(update) ==
    \/ Has(update, "$set") \/ Has(update, "$unset") \/ Has(update, "$inc")
    \/ Has(update, "$push") \/ Has(update, "$pull") \/ Has(update, "$addToSet")

\* the last statement of applyUpdateToDoc: doc.updatedAt = new Date()...
Touch(st, now) ==
    IF st.threw THEN st
    ELSE [doc |-> Put(st.doc, "updatedAt", Str(toISOString(now))),
          threw |-> FALSE]

\* applyUpdateToDoc(doc, update) at time now: update is a value
applyUpdateToDoc(doc, update, now) ==
    IF ~Truthy(update) THEN [doc |-> doc, threw |-> FALSE]
    ELSE IF hasRootLevelOperators(update.v)
    THEN Touch(
           ApplyOperator(
             ApplyOperator(
               ApplyOperator(
                 ApplyOperator(
                   ApplyOperator(
                     ApplyOperator([doc |-> doc, threw |-> FALSE],
                                   update.v, "$set", "set"),
                     update.v, "$unset", "unset"),
                   update.v, "$inc", "inc"),
                 update.v, "$push", "push"),
               update.v, "$addToSet", "addToSet"),
             update.v, "$pull", "pull"),
           now)
    ELSE Touch([doc |-> Assign(doc, update.v), threw |-> FALSE], now)

(***************************************************************************)
(* LocalAdapter: the state.                                                *)
(*   heap            address -> entries of a document object               *)
(*   collections     name -> [data, dirty, lastSave, idIndex, indexes];    *)
(*                   data is the list of addresses, idIndex maps an id to  *)
(*                   a 0-based position, indexes is the Map of secondary   *)
(*                   indexes in insertion order                            *)
(*   queryCache      the cache of the one QueryEngine of the adapter       *)
(*   saveQueue       names with an entry in the saveQueue Map              *)
(*   timers          names whose timer of saveQueue is armed, not yet fired*)
(*   isSaving        names being saved                                     *)
(*   saves           name -> the _flushToDisk call in flight: the text it  *)
(*                   writes, its await (write or rename)                   *)
(*   disk, tmp       {name}.json and {name}.json.tmp: name -> content      *)
(*   clock           the wall clock, in milliseconds                       *)
(*   engine          "open", "closing" (close() awaits its saves),         *)
(*                   "closed" (close() has resolved), "reopened" (a new    *)
(*                   engine on the same storagePath)                       *)
(*   closeWaits      the saves close() awaits                              *)
(*   closedData      the documents in memory when close() was called       *)
(*   last            the last request and its response                     *)
(*   http            an HTTPAdapter: its requestQueue, its activeRequests, *)
(*                   the attempts in flight, the setImmediate callbacks    *)
(*                   not yet run, and what happened to each request        *)
(***************************************************************************)
VARIABLES heap, collections, queryCache, saveQueue, timers, isSaving, saves,
          disk, tmp, clock, engine, closeWaits, closedData, last, http

vars == <<heap, collections, queryCache, saveQueue, timers, isSaving, saves,
          disk, tmp, clock, engine, closeWaits, closedData, last, http>>

\* the adapter's state as one value, for the handlers below
World ==
    [heap |-> heap, collections |-> collections, queryCache |-> queryCache,
     saveQueue |-> saveQueue, timers |-> timers, disk |-> disk, clock |-> clock]

\* the smallest address that is free
Alloc(h) == CHOOSE a \in 1..(Cardinality(DOMAIN h) + 1) :
                a \notin DOMAIN h /\ \A b \in 1..(a - 1) : b \in DOMAIN h
New(h, doc) == [a \in DOMAIN h \cup {Alloc(h)} |-> IF a \in DOMAIN h THEN h[a] ELSE doc]

\* col.data[i], with JavaScript's 0-based positions
At(data, i) == data[i + 1]
Range(f) == {f[x] : x \in DOMAIN f}
MapSet(m, k, v) == [x \in DOMAIN m \cup {k} |-> IF x = k THEN v ELSE m[x]]
MapDelete(m, k) == [x \in DOMAIN m \ {k} |-> m[x]]

\* JSON.parse(JSON.stringify(v)): entries whose value is undefined are
\* dropped, undefined in an array becomes null
RECURSIVE JSONValue(_)
JSONValue(x) ==
    CASE x.t = "object" ->
            LET kept == SelectSeq(x.v, LAMBDA e : e.v.t # "undefined")
            IN  Obj([i \in 1..Len(kept) |-> E(kept[i].k, JSONValue(kept[i].v))])
      [] x.t = "array" ->
            Arr([i \in 1..Len(x.v) |->
                    IF x.v[i].t = "undefined" THEN Null ELSE JSONValue(x.v[i])])
      [] OTHER -> x

\* Array.prototype.sort() of the keys the model uses: their place in the
\* default (code unit) order
KeyRank(k) ==
    CASE k = "a" -> 1
      [] k = "b" -> 2
      [] k = "n" -> 3
      [] OTHER -> 4
RECURSIVE SortEntries(_)
SortEntries(o) ==
    IF o = <<>> THEN <<>>
    ELSE LET m == CHOOSE i \in 1..Len(o) :
                      \A j \in 1..Len(o) : KeyRank(o[i].k) <= KeyRank(o[j].k)
         IN  <<o[m]>> \o SortEntries([i \in 1..(Len(o) - 1) |->
                                          IF i < m THEN o[i] ELSE o[i + 1]])

\* _reorderDocumentFields(doc): id, the other fields sorted, createdAt,
\* updatedAt
reservedFields == {"id", "createdAt", "updatedAt"}
_reorderDocumentFields(doc) ==
    (IF Get(doc, "id").t # "undefined" THEN <<E("id", Get(doc, "id"))>> ELSE <<>>)
    \o SortEntries(SelectSeq(doc, LAMBDA e : e.k \notin reservedFields))
    \o (IF Get(doc, "createdAt").t # "undefined"
        THEN <<E("createdAt", Get(doc, "createdAt"))>> ELSE <<>>)
    \o (IF Get(doc, "updatedAt").t # "undefined"
        THEN <<E("updatedAt", Get(doc, "updatedAt"))>> ELSE <<>>)

\* the text _flushToDisk writes: JSON.stringify of the reordered documents
Snapshot(h, data) ==
    [i \in 1..Len(data) |-> JSONValue(Obj(_reorderDocumentFields(h[data[i]]))).v]

\* idIndex as load, delete and deleteById rebuild it: every document with a
\* truthy id at its position (a later document wins an id)
IdIndexOf(h, data) ==
    LET ids == {Get(h[data[i]], "id") : i \in {j \in 1..Len(data) :
                                                   Truthy(Get(h[data[j]], "id"))}}
    IN  [id \in ids |->
            (CHOOSE i \in 1..Len(data) :
                 /\ Get(h[data[i]], "id") = id
                 /\ \A j \in (i + 1)..Len(data) : Get(h[data[j]], "id") # id) - 1]

\* the objects JSON.parse makes of a file: the heap with them, their addresses
RECURSIVE Parse(_, _)
Parse(h, docs) ==
    IF docs = <<>> THEN [heap |-> h, data |-> <<>>]
    ELSE LET h1 == New(h, Head(docs))
             rest == Parse(h1, Tail(docs))
         IN  [heap |-> rest.heap, data |-> <<Alloc(h)>> \o rest.data]

\* _getCollection(name): the world with the collection in memory
_getCollection(w, name) ==
    IF name \in DOMAIN w.collections THEN w
    ELSE IF name \in DOMAIN w.disk
    THEN LET p == Parse(w.heap, w.disk[name])
         IN  [w EXCEPT !.heap = p.heap,
                       !.collections =
                           MapSet(w.collections, name,
                                  [data |-> p.data, dirty |-> FALSE,
                                   lastSave |-> DateNow(w.clock),
                                   idIndex |-> IdIndexOf(p.heap, p.data),
                                   indexes |-> <<>>])]
    ELSE [w EXCEPT !.collections =
                       MapSet(w.collections, name,
                              [data |-> <<>>, dirty |-> FALSE, lastSave |-> 0,
                               idIndex |-> <<>>, indexes |-> <<>>])]

\* _scheduleSave(name)
_scheduleSave(w, name) ==
    IF name \notin DOMAIN w.collections THEN w
    ELSE [w EXCEPT !.collections[name].dirty = TRUE,
                   !.saveQueue = w.saveQueue \cup {name},
                   !.timers = w.timers \cup {name}]

(***************************************************************************)
(* Secondary indexes: index.map is a Map of Maps, one level per field,     *)
(* whose leaves are lists of positions; here a function per Map.           *)
(***************************************************************************)
\* the walk of one index for a document: node.set down the fields, a push
\* at the leaf; the walk ends at the first field the document lacks
RECURSIVE IndexAdd(_, _, _, _)
IndexAdd(node, fields, doc, docIdx) ==
    LET value == Get(doc, Head(fields))
        child == IF value \in DOMAIN node THEN node[value] ELSE <<>>
    IN  IF value.t = "undefined" THEN node
        ELSE MapSet(node, value,
                    IF Len(fields) = 1 THEN Append(child, docIdx)
                    ELSE IndexAdd(child, Tail(fields), doc, docIdx))

\* whether the document has every field of the index
Indexed(doc, fields) == \A i \in 1..Len(fields) : Get(doc, fields[i]).t # "undefined"

\* _updateIndexesOnInsert(col, doc, docIdx): the loop over col.indexes
\* returns from the method at the first index the document lacks a field of
RECURSIVE _updateIndexesOnInsert(_, _, _)
_updateIndexesOnInsert(indexes, doc, docIdx) ==
    IF indexes = <<>> THEN <<>>
    ELSE LET index == Head(indexes)
             done == [index EXCEPT !.map = IndexAdd(index.map, index.fields,
                                                    doc, docIdx)]
         IN  IF Indexed(doc, index.fields)
             THEN <<done>> \o _updateIndexesOnInsert(Tail(indexes), doc, docIdx)
             ELSE <<done>> \o Tail(indexes)

\* node.splice(node.indexOf(docIdx), 1)
RemoveFirst(list, x) ==
    LET pos == CHOOSE i \in 1..Len(list) :
                   list[i] = x /\ \A j \in 1..(i - 1) : list[j] # x
    IN  [i \in 1..(Len(list) - 1) |-> IF i < pos THEN list[i] ELSE list[i + 1]]

\* _removeFromIndex(index, doc, docIdx) on index.map
RECURSIVE IndexRemove(_, _, _, _)
IndexRemove(node, fields, doc, docIdx) ==
    LET value == Get(doc, Head(fields))
    IN  IF value.t = "undefined" \/ value \notin DOMAIN node THEN node
        ELSE IF Len(fields) = 1
        THEN IF \A i \in 1..Len(node[value]) : node[value][i] # docIdx THEN node
             ELSE IF Len(node[value]) = 1 THEN MapDelete(node, value)
             ELSE MapSet(node, value, RemoveFirst(node[value], docIdx))
        ELSE LET child == IndexRemove(node[value], Tail(fields), doc, docIdx)
             IN  IF child = node[value] THEN node
                 ELSE IF DOMAIN child = {} THEN MapDelete(node, value)
                 ELSE MapSet(node, value, child)

_removeFromIndex(index, doc, docIdx) ==
    [index EXCEPT !.map = IndexRemove(index.map, index.fields, doc, docIdx)]

(***************************************************************************)
(* The response of a request, kept in `last` with the request itself.      *)
(*   data: the payload of the envelope, docs: the addresses of the         *)
(*   documents the envelope holds; code 0 stands for error: null           *)
(***************************************************************************)
Response(op, name, args, success, code, data, docs) ==
    [op |-> op, name |-> name, args |-> args, success |-> success,
     code |-> code, data |-> data, docs |-> docs]

\* a world and the response a handler returns with it
Result(w, resp) == [w |-> w, resp |-> resp]

(***************************************************************************)
(* LocalAdapter.insert                                                     *)
(***************************************************************************)
\* one turn of the loop `for (let doc of toInsert)`: st holds the heap, the
\* collection, inserted (the ids of the pushed documents), updated (the
\* number of upserts), sequence, allIdsWereGenerated and threw (a TypeError
\* left the loop: doc.id of an element that is null or undefined)
InsertOne(st, doc, useSequentialIds, prefix, rid, now) ==
    IF doc.t \in {"null", "undefined"} THEN [st EXCEPT !.threw = TRUE]
    ELSE
    LET given == Truthy(Get(doc.v, "id"))
        sequence == IF ~given /\ useSequentialIds THEN st.sequence + 1
                    ELSE st.sequence
        docId == IF given THEN String(Get(doc.v, "id"))
                 ELSE IF useSequentialIds
                 THEN Str(prefix \o "_" \o ToString(sequence))
                 ELSE Str(rid)
        withId == Put(doc.v, "id", docId)
        existingIndex == IF docId \in DOMAIN st.col.idIndex
                         THEN st.col.idIndex[docId] ELSE -1
    IN  IF existingIndex # -1
        THEN IF existingIndex >= Len(st.col.data)
             THEN [st EXCEPT !.threw = TRUE, !.sequence = sequence,
                             !.allIdsWereGenerated = @ /\ ~given]
             ELSE LET a == At(st.col.data, existingIndex)
                      existingDoc == st.heap[a]
                      originalCreatedAt == Get(existingDoc, "createdAt")
                      merged == Put(Put(Assign(existingDoc, withId),
                                        "createdAt", originalCreatedAt),
                                    "updatedAt", Str(now))
                  IN  [st EXCEPT !.heap[a] = merged,
                                 !.updated = @ + 1,
                                 !.sequence = sequence,
                                 !.allIdsWereGenerated = @ /\ ~given]
        ELSE LET created == IF Truthy(Get(withId, "createdAt"))
                            THEN Get(withId, "createdAt") ELSE Str(now)
                 stored == Put(withId, "createdAt", created)
                 newIndex == Len(st.col.data)
                 a == Alloc(st.heap)
             IN  [st EXCEPT !.heap = New(st.heap, stored),
                            !.col.data = Append(@, a),
                            !.col.idIndex = MapSet(@, docId, newIndex),
                            !.col.indexes = _updateIndexesOnInsert(@, stored,
                                                                   newIndex),
                            !.inserted = Append(@, docId),
                            !.sequence = sequence,
                            !.allIdsWereGenerated = @ /\ ~given]

RECURSIVE InsertLoop(_, _, _, _, _, _)
InsertLoop(st, toInsert, useSequentialIds, prefix, rid, now) ==
    IF st.threw \/ toInsert = <<>> THEN st
    ELSE InsertLoop(InsertOne(st, Head(toInsert), useSequentialIds, prefix,
                              rid, now),
                    Tail(toInsert), useSequentialIds, prefix, rid, now)

\* the data of the envelope insert returns
InsertResponseData(st, useSequentialIds, prefix) ==
    <<E("insertedCount", Num(Len(st.inserted))), E("updatedCount", Num(st.updated))>>
    \o (IF Len(st.inserted) = 0 THEN <<>>
        ELSE IF Len(st.inserted) > 20
        THEN <<E("firstId", st.inserted[1]),
               E("lastId", st.inserted[Len(st.inserted)])>>
             \o (IF st.allIdsWereGenerated /\ useSequentialIds
                 THEN <<E("prefix", Str(prefix \o "_"))>> ELSE <<>>)
        ELSE <<E("insertedIds", Arr(st.inserted))>>)

\* insert({ data }) on collection name; rid is what generateId() returns
insert(w0, name, data, rid) ==
    LET w == _getCollection(w0, name)
        toInsert == IF data.t = "array" THEN data.v ELSE <<data>>
        now == toISOString(w.clock)
        useSequentialIds == Len(toInsert) >= 2
        prefix == toString36(DateNow(w.clock))
        st == InsertLoop([heap |-> w.heap, col |-> w.collections[name],
                          inserted |-> <<>>, updated |-> 0, sequence |-> 0,
                          allIdsWereGenerated |-> TRUE, threw |-> FALSE],
                         toInsert, useSequentialIds, prefix, rid, now)
        w1 == [w EXCEPT !.heap = st.heap, !.collections[name] = st.col]
        w2 == IF Len(st.inserted) > 0 \/ st.updated > 0
              THEN _scheduleSave(w1, name) ELSE w1
    IN  IF st.threw
        THEN Result(w1, Response("insert", name, data, FALSE, 500, Null, <<>>))
        ELSE Result(w2, Response("insert", name, data, TRUE, 0,
                                 Obj(InsertResponseData(st, useSequentialIds,
                                                        prefix)), <<>>))

(***************************************************************************)
(* LocalAdapter.update, updateById                                         *)
(***************************************************************************)
\* updateOperations as update() normalises it
normalizedUpdate(u) ==
    IF \/ Truthy(Get(u.v, "$set")) \/ Truthy(Get(u.v, "$inc"))
       \/ Truthy(Get(u.v, "$push")) \/ Truthy(Get(u.v, "$pull"))
       \/ Truthy(Get(u.v, "$unset")) \/ Truthy(Get(u.v, "$addToSet"))
    THEN u
    ELSE Obj(<<E("$set", u)>>)

\* one matching document of the loop of update(): r is what
\* applyUpdateToDoc made of the document at address a
UpdateDoc(st, a, r, now) ==
    [heap |-> [st.heap EXCEPT ![a] =
                   IF r.threw THEN r.doc
                   ELSE Put(r.doc, "updatedAt", Str(toISOString(now)))],
     updated |-> IF r.threw THEN st.updated ELSE st.updated + 1,
     threw |-> r.threw]

\* the loop of update() over col.data from position i (1-based here): the
\* heap it leaves, the number of documents updated, whether it threw
RECURSIVE UpdateLoop(_, _, _, _, _, _)
UpdateLoop(st, data, i, filters, u, now) ==
    IF st.threw \/ i > Len(data) THEN st
    ELSE IF matchesFilter(st.heap[data[i]], filters)
    THEN UpdateLoop(UpdateDoc(st, data[i],
                              applyUpdateToDoc(st.heap[data[i]], u, now), now),
                    data, i + 1, filters, u, now)
    ELSE UpdateLoop(st, data, i + 1, filters, u, now)

\* what update() returns once its loop has left st: the catch block, the
\* 404 of no match, or the count with a save scheduled
UpdateReply(w, name, args, st) ==
    IF st.threw
    THEN Result([w EXCEPT !.heap = st.heap],
                Response("update", name, args, FALSE, 500, Null, <<>>))
    ELSE IF st.updated = 0
    THEN Result([w EXCEPT !.heap = st.heap],
                Response("update", name, args, FALSE, 404, Null, <<>>))
    ELSE Result(_scheduleSave([w EXCEPT !.heap = st.heap], name),
                Response("update", name, args, TRUE, 0,
                         Obj(<<E("updatedCount", Num(st.updated))>>), <<>>))

\* update() on the collection once loaded
UpdateLoaded(w, name, filters, updateOperations) ==
    UpdateReply(w, name,
                Obj(<<E("filters", filters), E("update", updateOperations)>>),
                UpdateLoop([heap |-> w.heap, updated |-> 0, threw |-> FALSE],
                           w.collections[name].data, 1, filters,
                           normalizedUpdate(updateOperations), w.clock))

\* update({ filters, update }) with the default returnType 'count'
update(w0, name, filters, updateOperations) ==
    UpdateLoaded(_getCollection(w0, name), name, filters, updateOperations)

\* col.data.findIndex(d => d.id === id)
findIndex(h, data, id) ==
    IF \E i \in 1..Len(data) : StrictEq(Get(h[data[i]], "id"), id)
    THEN (CHOOSE i \in 1..Len(data) :
              /\ StrictEq(Get(h[data[i]], "id"), id)
              /\ \A j \in 1..(i - 1) : ~StrictEq(Get(h[data[j]], "id"), id)) - 1
    ELSE -1

\* what updateById() returns for the document at docIndex, address a: r is
\* what applyUpdateToDoc made of it
UpdateByIdReply(w, name, args, id, a, r) ==
    IF r.threw
    THEN Result([w EXCEPT !.heap[a] = r.doc],
                Response("updateById", name, args, FALSE, 400, Null, <<>>))
    ELSE Result(_scheduleSave([w EXCEPT !.heap[a] = r.doc], name),
                Response("updateById", name, args, TRUE, 0,
                         Obj(<<E("updatedCount", Num(1)), E("updatedId", id)>>),
                         <<a>>))

\* updateById() once the position of the document is looked up; at a
\* position of idIndex past the end of data the document is undefined and
\* applyUpdateToDoc throws, unless the update is falsy and it returns at once
UpdateAt(w, name, args, id, updateOperations, docIndex) ==
    IF docIndex = -1
    THEN Result(w, Response("updateById", name, args, FALSE, 404, Null, <<>>))
    ELSE IF docIndex >= Len(w.collections[name].data)
    THEN IF Truthy(updateOperations)
         THEN Result(w, Response("updateById", name, args, FALSE, 400, Null,
                                 <<>>))
         ELSE Result(_scheduleSave(w, name),
                     Response("updateById", name, args, TRUE, 0,
                              Obj(<<E("updatedCount", Num(1)),
                                    E("updatedId", id)>>), <<>>))
    ELSE UpdateByIdReply(w, name, args, id,
                         At(w.collections[name].data, docIndex),
                         applyUpdateToDoc(
                             w.heap[At(w.collections[name].data, docIndex)],
                             updateOperations, w.clock))

\* updateById(id, { update }) with the default returnType 'document'
updateById(w0, name, id, updateOperations) ==
    LET w == _getCollection(w0, name)
        col == w.collections[name]
    IN  UpdateAt(w, name,
                 Obj(<<E("id", id), E("update", updateOperations)>>),
                 id, updateOperations,
                 IF id \in DOMAIN col.idIndex THEN col.idIndex[id]
                 ELSE findIndex(w.heap, col.data, id))

(***************************************************************************)
(* LocalAdapter.delete, deleteById                                         *)
(***************************************************************************)
\* a delete that stops at the first document that matches
deleteFirstMatch(w0, name, filters) ==
    LET w == _getCollection(w0, name)
        col == w.collections[name]
        args == Obj(<<E("filters", filters)>>)
        hits == {i \in 1..Len(col.data) : matchesFilter(w.heap[col.data[i]], filters)}
        first == CHOOSE i \in hits : \A j \in hits : i <= j
        kept == [i \in 1..(Len(col.data) - 1) |->
                    IF i < first THEN col.data[i] ELSE col.data[i + 1]]
    IN  IF hits = {}
        THEN Result(w, Response("delete", name, args, FALSE, 404, Null, <<>>))
        ELSE Result(_scheduleSave(
                        [w EXCEPT !.collections[name].data = kept,
                                  !.collections[name].idIndex = IdIndexOf(w.heap, kept)],
                        name),
                    Response("delete", name, args, TRUE, 0,
                             Obj(<<E("deletedCount", Num(Cardinality(hits)))>>), <<>>))

\* delete({ filters }): data is filtered, idIndex cleared and rebuilt; the
\* secondary indexes are not touched
delete(w0, name, filters) ==
    LET w == _getCollection(w0, name)
        col == w.collections[name]
        args == Obj(<<E("filters", filters)>>)
        before == Len(col.data)
        kept == SelectSeq(col.data, LAMBDA a : ~matchesFilter(w.heap[a], filters))
        deleted == before - Len(kept)
        w1 == [w EXCEPT !.collections[name].data = kept,
                        !.collections[name].idIndex = IdIndexOf(w.heap, kept)]
    IN  IF deleted = 0
        THEN Result(w, Response("delete", name, args, FALSE, 404, Null, <<>>))
        ELSE Result(_scheduleSave(w1, name),
                    Response("delete", name, args, TRUE, 0,
                             Obj(<<E("deletedCount", Num(deleted))>>), <<>>))

\* the loop of deleteById that sets idIndex for the documents from docIdx on
RECURSIVE Reindex(_, _, _, _)
Reindex(idIndex, h, data, i) ==
    IF i >= Len(data) THEN idIndex
    ELSE LET id == Get(h[At(data, i)], "id")
         IN  Reindex(IF Truthy(id) THEN MapSet(idIndex, id, i) ELSE idIndex,
                     h, data, i + 1)

\* deleteById(id): splice, idIndex.delete, _removeFromIndex on every index,
\* then the renumbering of idIndex. A position of idIndex past the end of
\* data removes nothing, and with an index registered _removeFromIndex
\* throws on the undefined document.
deleteById(w0, name, id) ==
    LET w == _getCollection(w0, name)
        col == w.collections[name]
        args == Obj(<<E("id", id)>>)
        docIdx == col.idIndex[id]
        stale == docIdx >= Len(col.data)
        doc == w.heap[At(col.data, docIdx)]
        spliced == IF stale THEN col.data
                   ELSE [i \in 1..(Len(col.data) - 1) |->
                            IF i <= docIdx THEN col.data[i] ELSE col.data[i + 1]]
        removed == [i \in 1..Len(col.indexes) |->
                       _removeFromIndex(col.indexes[i], doc, docIdx)]
        w1 == [w EXCEPT !.collections[name].data = spliced,
                        !.collections[name].idIndex = MapDelete(col.idIndex, id)]
        w2 == [w1 EXCEPT !.collections[name].indexes = removed,
                         !.collections[name].idIndex =
                             Reindex(MapDelete(col.idIndex, id), w.heap,
                                     spliced, docIdx)]
    IN  IF id \notin DOMAIN col.idIndex
        THEN Result(w, Response("deleteById", name, args, FALSE, 404, Null, <<>>))
        ELSE IF stale /\ col.indexes # <<>>
        THEN Result(w1, Response("deleteById", name, args, FALSE, 500, Null, <<>>))
        ELSE IF stale
        THEN Result(_scheduleSave(w1, name),
                    Response("deleteById", name, args, TRUE, 0,
                             Obj(<<E("deletedCount", Num(1)), E("deletedId", id)>>),
                             <<>>))
        ELSE Result(_scheduleSave(w2, name),
                    Response("deleteById", name, args, TRUE, 0,
                             Obj(<<E("deletedCount", Num(1)), E("deletedId", id)>>),
                             <<>>))

(***************************************************************************)
(* LocalAdapter.createIndex, count, find                                   *)
(***************************************************************************)
\* the Map of an index built over col.data from position i (0-based) on
RECURSIVE BuildIndex(_, _, _, _, _)
BuildIndex(node, fields, h, data, i) ==
    IF i >= Len(data) THEN node
    ELSE BuildIndex(IndexAdd(node, fields, h[At(data, i)], i), fields, h,
                    data, i + 1)

\* `${x}` for an order of an index definition
OrderText(x) ==
    IF x.t = "number" THEN ToString(x.v)
    ELSE IF x.t = "string" THEN x.v
    ELSE x.t

\* fields.map(f => `${f}:${indexDef[f]}`).join('|')
RECURSIVE indexKey(_)
indexKey(indexDef) ==
    IF indexDef = <<>> THEN ""
    ELSE Head(indexDef).k \o ":" \o OrderText(Head(indexDef).v)
         \o (IF Len(indexDef) = 1 THEN "" ELSE "|" \o indexKey(Tail(indexDef)))

\* createIndex(indexDef): indexDef is the entries of the definition
createIndex(w0, name, indexDef) ==
    LET w == _getCollection(w0, name)
        col == w.collections[name]
        fields == [i \in 1..Len(indexDef) |-> indexDef[i].k]
        orders == [i \in 1..Len(indexDef) |-> indexDef[i].v]
        index == [key |-> indexKey(indexDef), fields |-> fields,
                  orders |-> orders,
                  map |-> BuildIndex(<<>>, fields, w.heap, col.data, 0)]
        w1 == [w EXCEPT !.collections[name].indexes = Append(@, index)]
    IN  IF Len(fields) = 0
        THEN Result(w, Response("createIndex", name, Obj(indexDef), FALSE, 400,
                                Null, <<>>))
        ELSE IF \E i \in 1..Len(orders) : orders[i] \notin {Num(1), Num(-1)}
        THEN Result(w, Response("createIndex", name, Obj(indexDef), FALSE, 400,
                                Null, <<>>))
        ELSE IF \E i \in 1..Len(col.indexes) :
                    col.indexes[i].key = indexKey(indexDef)
        THEN Result(w, Response("createIndex", name, Obj(indexDef), FALSE, 409,
                                Null, <<>>))
        ELSE Result(w1, Response("createIndex", name, Obj(indexDef), TRUE, 0,
                                 Obj(<<E("size", Num(Cardinality(DOMAIN index.map)))>>),
                                 <<>>))

\* count({ filters }): QueryEngine.count on col.data
count(w0, name, filters) ==
    LET w == _getCollection(w0, name)
        col == w.collections[name]
        args == Obj(<<E("filters", filters)>>)
        r == applyFilters(w.heap, w.queryCache, col.data, filters)
    IN  IF EmptyFilter(filters)
        THEN Result(w, Response("count", name, args, TRUE, 0,
                                Num(Len(col.data)), <<>>))
        ELSE Result([w EXCEPT !.queryCache = r.cache],
                    Response("count", name, args, TRUE, 0, Num(Len(r.results)),
                             <<>>))

\* validateFilter of find: a key that starts with $ and is not one of
\* validOperators throws; values that are objects are validated in turn
validOperators == {"$eq", "$ne", "$gt", "$gte", "$lt", "$lte", "$in", "$nin",
                   "$exists", "$regex", "$and", "$or", "$not"}
RECURSIVE validateFilter(_)
validateFilter(filter) ==
    CASE filter.t = "object" ->
            \A i \in 1..Len(filter.v) :
                /\ ~(startsWithDollar(filter.v[i].k)
                     /\ filter.v[i].k \notin validOperators)
                /\ validateFilter(filter.v[i].v)
      [] filter.t = "array" ->
            \A i \in 1..Len(filter.v) : validateFilter(filter.v[i])
      [] OTHER -> TRUE

\* find({ filters }) without options: the envelope holds the documents of
\* col.data themselves (a new array of the same objects)
find(w0, name, filters) ==
    LET w == _getCollection(w0, name)
        col == w.collections[name]
        args == Obj(<<E("filters", filters)>>)
        r == applyFilters(w.heap, w.queryCache, col.data, filters)
        w1 == [w EXCEPT !.queryCache = r.cache]
    IN  IF ~validateFilter(filters)
        THEN Result(w, Response("find", name, args, FALSE, 500, Arr(<<>>), <<>>))
        ELSE IF Len(r.results) = 0
        THEN Result(w1, Response("find", name, args, FALSE, 404, Arr(<<>>), <<>>))
        ELSE Result(w1, Response("find", name, args, TRUE, 0,
                                 Obj(<<E("total", Num(Len(r.results)))>>),
                                 r.results))

(***************************************************************************)
(* QueryEngine.sortResults, selectFields and find with its options.        *)
(***************************************************************************)
\* the comparator of sortResults on two documents: the first field of
\* sortSpec that tells them apart decides
RECURSIVE Comparator(_, _, _)
Comparator(a, b, sortSpec) ==
    IF sortSpec = <<>> THEN 0
    ELSE LET aVal == getValue(a, Head(sortSpec).k)
             bVal == getValue(b, Head(sortSpec).k)
             direction == Head(sortSpec).v
         IN  IF JsLt(aVal, bVal) THEN (IF direction = Num(1) THEN -1 ELSE 1)
             ELSE IF JsGt(aVal, bVal) THEN (IF direction = Num(1) THEN 1 ELSE -1)
             ELSE Comparator(a, b, Tail(sortSpec))

\* data.sort(comparator): Array.prototype.sort is stable, so a document
\* goes behind the documents that do not compare greater than it
RECURSIVE SortInto(_, _, _, _)
SortInto(h, acc, rest, sortSpec) ==
    IF rest = <<>> THEN acc
    ELSE LET x == Head(rest)
             before == SelectSeq(acc, LAMBDA y : Comparator(h[y], h[x], sortSpec) <= 0)
             after == SelectSeq(acc, LAMBDA y : Comparator(h[y], h[x], sortSpec) > 0)
         IN  SortInto(h, before \o <<x>> \o after, Tail(rest), sortSpec)
sortResults(h, data, sortSpec) == SortInto(h, <<>>, data, sortSpec.v)

\* _removeFieldByPath below its first part: cur is the value reached,
\* parts what is left of the path; threw is the TypeError of a null on
\* the way
RECURSIVE _removeFieldByPath(_, _)
_removeFieldByPath(cur, parts) ==
    IF cur.t = "null" THEN [val |-> cur, threw |-> TRUE]
    ELSE IF cur.t # "object" THEN [val |-> cur, threw |-> FALSE]
    ELSE IF Len(parts) = 1
    THEN [val |-> Obj(Del(cur.v, Head(parts))), threw |-> FALSE]
    ELSE LET child == Get(cur.v, Head(parts))
             r == _removeFieldByPath(child, Tail(parts))
         IN  IF child.t = "undefined" \/ ~TypeofObject(child)
             THEN [val |-> cur, threw |-> FALSE]
             ELSE [val |-> Obj(Put(cur.v, Head(parts), r.val)), threw |-> r.threw]

\* the object an inclusion builds for one document
RECURSIVE Included(_, _, _)
Included(doc, projection, result) ==
    IF projection = <<>> THEN result
    ELSE LET field == Head(projection).k
             include == Head(projection).v
         IN  Included(doc, Tail(projection),
                      IF include = Num(1) \/ include = Bool(TRUE)
                      THEN Put(result, field, getValue(doc, field))
                      ELSE result)

\* the loop of an exclusion for one document: st.result is the copy
\* { ...doc }, st.doc the stored document, whose nested objects the copy
\* shares, so that a removal below the first level shows in both
RECURSIVE Excluded(_, _)
Excluded(st, projection) ==
    IF projection = <<>> \/ st.threw THEN st
    ELSE LET field == Head(projection).k
             exclude == Head(projection).v
             r == _removeFieldByPath(Obj(st.result), split(field))
             d == _removeFieldByPath(Obj(st.doc), split(field))
         IN  IF ~(exclude = Num(-1) \/ exclude = Bool(FALSE))
             THEN Excluded(st, Tail(projection))
             ELSE IF Len(split(field)) = 1
             THEN Excluded([st EXCEPT !.result = Del(st.result, field)],
                           Tail(projection))
             ELSE IF ~Has(st.result, Head(split(field)))
             THEN Excluded(st, Tail(projection))
             ELSE IF r.threw THEN [st EXCEPT !.threw = TRUE]
             ELSE Excluded([st EXCEPT !.result = r.val.v, !.doc = d.val.v],
                           Tail(projection))

\* one step of data.map of selectFields: the result obj of the document at
\* a is a new object; doc is what the step leaves of the stored document
Projected(st, a, doc, obj) ==
    [heap |-> New([st.heap EXCEPT ![a] = doc], obj),
     data |-> Append(st.data, Alloc(st.heap)),
     threw |-> FALSE]
ExcludedStep(st, a, x) ==
    IF x.threw THEN [st EXCEPT !.threw = TRUE]
    ELSE Projected(st, a, x.doc, x.result)

\* data.map of selectFields
RECURSIVE ProjectEach(_, _, _, _)
ProjectEach(st, data, projection, include) ==
    IF data = <<>> \/ st.threw THEN st
    ELSE ProjectEach(
             IF include
             THEN Projected(st, Head(data), st.heap[Head(data)],
                            Included(st.heap[Head(data)], projection, <<>>))
             ELSE ExcludedStep(st, Head(data),
                               Excluded([result |-> st.heap[Head(data)],
                                         doc |-> st.heap[Head(data)],
                                         threw |-> FALSE], projection)),
             Tail(data), projection, include)

\* selectFields(data, projection): an inclusion has a value 1 or true and
\* no value -1 or false, an exclusion the reverse; any other projection
\* returns data itself
selectFields(h, data, projection) ==
    LET hasIncludeFields ==
            \E i \in 1..Len(projection.v) :
                projection.v[i].v = Num(1) \/ projection.v[i].v = Bool(TRUE)
        hasExcludeFields ==
            \E i \in 1..Len(projection.v) :
                projection.v[i].v = Num(-1) \/ projection.v[i].v = Bool(FALSE)
        st == [heap |-> h, data |-> <<>>, threw |-> FALSE]
    IN  IF projection.t # "object" \/ projection.v = <<>>
        THEN [heap |-> h, data |-> data, threw |-> FALSE]
        ELSE IF hasIncludeFields /\ ~hasExcludeFields
        THEN ProjectEach(st, data, projection.v, TRUE)
        ELSE IF hasExcludeFields /\ ~hasIncludeFields
        THEN ProjectEach(st, data, projection.v, FALSE)
        ELSE [heap |-> h, data |-> data, threw |-> FALSE]

\* options.limit after toLowerCase and parseInt: -1 stands for NaN
limitNum(limit) ==
    IF limit.t = "number" THEN limit.v
    ELSE IF limit.t = "string" THEN parseInt(limit.v)
    ELSE -1

\* the options of find that throw
OptionsThrow(options) ==
    LET sort == Get(options.v, "sort")
        skip == Get(options.v, "skip")
        limit == Get(options.v, "limit")
        fields == Get(options.v, "fields")
    IN  \/ Truthy(sort) /\ ~TypeofObject(sort)
        \/ Truthy(skip) /\ skip.t = "number" /\ skip.v < 0
        \/ Truthy(limit) /\ limit # Str("all") /\ limitNum(limit) < 0
        \/ Truthy(fields) /\ ~TypeofObject(fields)

\* data.slice(start), data.slice(0, end)
SliceFrom(data, start) == SubSeq(data, start + 1, Len(data))
SliceTo(data, end) == SubSeq(data, 1, IF end < Len(data) THEN end ELSE Len(data))

\* the part of find between applyFilters and the projection: sort, skip
\* and limit, each applied when its option is truthy
Sorted(h, data, sort) == IF Truthy(sort) THEN sortResults(h, data, sort) ELSE data
Skipped(data, skip) == IF Truthy(skip) THEN SliceFrom(data, skip.v) ELSE data
Limited(data, limit) ==
    IF Truthy(limit) /\ limit # Str("all") THEN SliceTo(data, limitNum(limit))
    ELSE data
Page(h, allResults, options) ==
    Limited(Skipped(Sorted(h, allResults, Get(options.v, "sort")),
                    Get(options.v, "skip")),
            Get(options.v, "limit"))

\* the envelope of find: sel is what selectFields returned, or the page
\* itself without options.fields; total is allResults.length
FindEnvelope(w, name, args, total, sel) ==
    IF sel.threw
    THEN Result([w EXCEPT !.heap = sel.heap],
                Response("find", name, args, FALSE, 500, Arr(<<>>), <<>>))
    ELSE IF total = 0
    THEN Result([w EXCEPT !.heap = sel.heap],
                Response("find", name, args, FALSE, 404, Arr(<<>>), <<>>))
    ELSE Result([w EXCEPT !.heap = sel.heap],
                Response("find", name, args, TRUE, 0,
                         Obj(<<E("total", Num(total))>>), sel.data))

\* find once the filters are applied: w holds the cache as applyFilters
\* left it
FindReply(w, name, args, allResults, options) ==
    IF OptionsThrow(options)
    THEN Result(w, Response("find", name, args, FALSE, 500, Arr(<<>>), <<>>))
    ELSE FindEnvelope(w, name, args, Len(allResults),
                      IF Truthy(Get(options.v, "fields"))
                      THEN selectFields(w.heap, Page(w.heap, allResults, options),
                                        Get(options.v, "fields"))
                      ELSE [heap |-> w.heap,
                            data |-> Page(w.heap, allResults, options),
                            threw |-> FALSE])

\* find({ filters, options })
FindLoaded(w, name, args, filters, options, r) ==
    IF ~validateFilter(filters)
    THEN Result(w, Response("find", name, args, FALSE, 500, Arr(<<>>), <<>>))
    ELSE FindReply([w EXCEPT !.queryCache = r.cache], name, args, r.results,
                   options)
FindIn(w, name, filters, options) ==
    FindLoaded(w, name, Obj(<<E("filters", filters), E("options", options)>>),
               filters, options,
               applyFilters(w.heap, w.queryCache, w.collections[name].data,
                            filters))
findWith(w0, name, filters, options) ==
    FindIn(_getCollection(w0, name), name, filters, options)

\* Collection.findOne(filters, options): find with the options
\* { limit: 1, sort: { createdAt: -1 }, ...options }, then element 0 of
\* its data; a find that fails passes its error on
findOneOptions(options) ==
    Obj(Assign(<<E("limit", Num(1)),
                 E("sort", Obj(<<E("createdAt", Num(-1))>>))>>, options.v))
FindOneReply(r, name, args) ==
    IF ~r.resp.success
    THEN Result(r.w, Response("findOne", name, args, FALSE, r.resp.code, Null, <<>>))
    ELSE IF r.resp.docs = <<>>
    THEN Result(r.w, Response("findOne", name, args, FALSE, 404, Null, <<>>))
    ELSE Result(r.w, Response("findOne", name, args, TRUE, 0, Null,
                              <<r.resp.docs[1]>>))
findOne(w0, name, filters, options) ==
    FindOneReply(findWith(w0, name, filters, findOneOptions(options)), name,
                 Obj(<<E("filters", filters), E("options", options)>>))

\* findById(id): the document at the position idIndex gives, or the first
\* one of data with this id; the envelope holds the document itself
findById(w0, name, id) ==
    LET w == _getCollection(w0, name)
        col == w.collections[name]
        args == Obj(<<E("id", id)>>)
        byId == SelectSeq(col.data, LAMBDA a : StrictEq(Get(w.heap[a], "id"), id))
        found == IF id \in DOMAIN col.idIndex
                 THEN (IF col.idIndex[id] < Len(col.data)
                       THEN <<At(col.data, col.idIndex[id])>> ELSE <<>>)
                 ELSE (IF byId = <<>> THEN <<>> ELSE <<byId[1]>>)
    IN  IF found = <<>>
        THEN Result(w, Response("findById", name, args, FALSE, 404, Null, <<>>))
        ELSE Result(w, Response("findById", name, args, TRUE, 0, Null, found))

(***************************************************************************)
(* LocalAdapter.paginate                                                   *)
(***************************************************************************)
\* Math.max(1, parseInt(x) || fallback) for an option x
AtLeastOne(x, fallback) ==
    LET n == IF x.t = "number" THEN x.v
             ELSE IF x.t = "string" THEN parseInt(x.v)
             ELSE -1
        m == IF x.t = "number" /\ n # 0 THEN n
             ELSE IF x.t = "string" /\ n > 0 THEN n
             ELSE fallback
    IN  IF m < 1 THEN 1 ELSE m

\* Math.ceil(a / b) for a >= 0, b >= 1
Ceil(a, b) == (a + b - 1) \div b

\* the metadata block of paginate
Pagination(page, limit, totalItems) ==
    LET skip == (page - 1) * limit
        totalPages == IF totalItems > 0 THEN Ceil(totalItems, limit) ELSE 0
    IN  Obj(<<E("page", Num(page)), E("limit", Num(limit)), E("skip", Num(skip)),
              E("total", Num(totalItems)), E("totalPages", Num(totalPages)),
              E("hasMore", Bool(page < totalPages)),
              E("hasNext", Bool(page < totalPages)),
              E("hasPrev", Bool(page > 1)),
              E("nextPage", IF page < totalPages THEN Num(page + 1) ELSE Null),
              E("prevPage", IF page > 1 THEN Num(page - 1) ELSE Null),
              E("startIndex", IF totalItems > 0 /\ page <= totalPages
                              THEN Num(skip + 1) ELSE Num(0)),
              E("endIndex", IF page <= totalPages
                            THEN Num(IF skip + limit < totalItems
                                     THEN skip + limit ELSE totalItems)
                            ELSE Num(0))>>)

\* paginate once find has answered with r: a find that fails is returned
\* as it is; a page past the last one is an error 404 with its metadata
PaginateReply(r, name, args, page, limit) ==
    LET total == Get(r.resp.data.v, "total").v
    IN  IF ~r.resp.success
        THEN Result(r.w, Response("paginate", name, args, FALSE, r.resp.code,
                                  r.resp.data, <<>>))
        ELSE Result(r.w, Response("paginate", name, args,
                                  page <= Ceil(total, limit),
                                  IF page <= Ceil(total, limit) THEN 0 ELSE 404,
                                  Pagination(page, limit, total), r.resp.docs))

\* paginate(filters, options): find with { ...options, skip, limit }
PaginateWith(w0, name, filters, options, page, limit) ==
    PaginateReply(findWith(w0, name, filters,
                           Obj(Assign(options.v,
                                      <<E("skip", Num((page - 1) * limit)),
                                        E("limit", Num(limit))>>))),
                  name, Obj(<<E("filters", filters), E("options", options)>>),
                  page, limit)
paginate(w0, name, filters, options) ==
    PaginateWith(w0, name, filters, options,
                 AtLeastOne(Get(options.v, "page"), 1),
                 AtLeastOne(Get(options.v, "limit"), 10))

(***************************************************************************)
(* Collection.drop, LiekoDB.dropCollection                                 *)
(***************************************************************************)
\* Collection.drop(): request('DELETE', '/collections/<name>') with no
\* third part in the path and no payload, which request() routes to
\* delete({}) with the default filters {}
drop(w0, name) == delete(w0, name, Obj(<<>>))

\* LiekoDB.dropCollection(name) calls adapter.dropCollection(name), which
\* takes no parameter and drops this.collectionName, here current:
\* collections.delete, the timer cleared and saveQueue.delete, fs.unlink
\* of the file (a file that is absent is no error). unlink is the one
\* await of the handler; nothing of the adapter is read or written after
\* it.
dropCollection(w, name, current) ==
    Result([w EXCEPT !.collections = MapDelete(@, current),
                     !.saveQueue = @ \ {current},
                     !.timers = IF current \in w.saveQueue THEN @ \ {current}
                                ELSE @,
                     !.disk = MapDelete(@, current)],
           Response("dropCollection", current, Obj(<<E("name", Str(name))>>),
                    TRUE, 0, Obj(<<E("dropped", Bool(TRUE))>>), <<>>))

(***************************************************************************)
(* The requests of the application as actions. A handler runs to its end   *)
(* without interleaving (it has no await before it returns its envelope).  *)
(***************************************************************************)
\* the names of a set of collections, one after the other
RECURSIVE NameSeq(_)
NameSeq(S) ==
    IF S = {} THEN <<>>
    ELSE LET n == CHOOSE x \in S : TRUE IN <<n>> \o NameSeq(S \ {n})

\* a list without the repetitions of its elements
RECURSIVE Dedupe(_, _)
Dedupe(seq, acc) ==
    IF seq = <<>> THEN acc
    ELSE Dedupe(Tail(seq),
                IF \E i \in 1..Len(acc) : acc[i] = Head(seq) THEN acc
                ELSE Append(acc, Head(seq)))

RECURSIVE Concat(_)
Concat(seqs) == IF seqs = <<>> THEN <<>> ELSE Head(seqs) \o Concat(Tail(seqs))

\* the addresses a state holds, in the order data, the cached result lists
\* and the envelope name them
Roots(colls, cache, resp) ==
    LET names == NameSeq(DOMAIN colls)
    IN  Dedupe(Concat([i \in 1..Len(names) |-> colls[names[i]].data])
               \o Concat([i \in 1..Len(cache) |-> cache[i].results])
               \o resp.docs, <<>>)

\* the state a handler leaves: r is its Result. Objects nothing refers to
\* any more are dropped from the heap, and the others are numbered in the
\* order of Roots (an address is only an identity)
Settle(r) ==
    LET roots == Roots(r.w.collections, r.w.queryCache, r.resp)
        ren(a) == CHOOSE i \in 1..Len(roots) : roots[i] = a
        renSeq(q) == [i \in 1..Len(q) |-> ren(q[i])]
    IN  /\ heap' = [i \in 1..Len(roots) |-> r.w.heap[roots[i]]]
        /\ collections' =
               [n \in DOMAIN r.w.collections |->
                   [r.w.collections[n] EXCEPT !.data = renSeq(@)]]
        /\ queryCache' =
               [i \in 1..Len(r.w.queryCache) |->
                   [r.w.queryCache[i] EXCEPT !.results = renSeq(@)]]
        /\ saveQueue' = r.w.saveQueue
        /\ timers' = r.w.timers
        /\ last' = [r.resp EXCEPT !.docs = renSeq(@)]

\* a handler that leaves the files and the saves in flight alone
Commit(r) ==
    /\ Settle(r)
    /\ UNCHANGED <<isSaving, saves, disk, tmp, clock, engine, closeWaits,
                   closedData, http>>

\* the ids of the documents in memory and the keys of the idIndexes
IdsInUse ==
    UNION {{Get(heap[collections[n].data[i]], "id") :
                i \in 1..Len(collections[n].data)} : n \in DOMAIN collections}
    \cup UNION {DOMAIN collections[n].idIndex : n \in DOMAIN collections}

\* the number of positions a Map of an index holds in its leaves
RECURSIVE Positions(_, _)
Positions(node, depth) ==
    IF depth = 0 THEN Len(node)
    ELSE LET sizes == NameSeq(DOMAIN node)
         IN  IF sizes = <<>> THEN 0
             ELSE Positions(node[sizes[1]], depth - 1)
                  + Positions([x \in DOMAIN node \ {sizes[1]} |-> node[x]], depth)

\* this.collectionName: the collection of the latest request(), null (here
\* "") on a new adapter
collectionName == last.name

\* the collection stays within the bounds of the model
Bounded(r, name) ==
    LET col == r.w.collections[name]
    IN  /\ Len(col.data) <= MaxDocs
        /\ \A i \in 1..Len(col.indexes) :
               Positions(col.indexes[i].map, Len(col.indexes[i].fields))
                   <= MaxPositions

\* insert(data); generateId() returns rid, 16 random hex digits, which no
\* document holds yet
Insert(name, data, rid) ==
    /\ engine = "open"
    /\ Str(rid) \notin IdsInUse
    /\ Bounded(insert(World, name, data, rid), name)
    /\ Commit(insert(World, name, data, rid))

Update(name, filters, u) ==
    /\ engine = "open"
    /\ Commit(update(World, name, filters, u))

UpdateById(name, id, u) ==
    /\ engine = "open"
    /\ Commit(updateById(World, name, id, u))

Delete(name, filters) ==
    /\ engine = "open"
    /\ Commit(delete(World, name, filters))

DeleteById(name, id) ==
    /\ engine = "open"
    /\ Commit(deleteById(World, name, id))

CreateIndex(name, indexDef) ==
    /\ engine = "open"
    /\ Commit(createIndex(World, name, indexDef))

Count(name, filters) ==
    /\ engine \in {"open", "reopened"}
    /\ Commit(count(World, name, filters))

Find(name, filters) ==
    /\ engine \in {"open", "reopened"}
    /\ Commit(find(World, name, filters))

FindWith(name, filters, options) ==
    /\ engine \in {"open", "reopened"}
    /\ Commit(findWith(World, name, filters, options))

FindOne(name, filters, options) ==
    /\ engine \in {"open", "reopened"}
    /\ Commit(findOne(World, name, filters, options))

FindById(name, id) ==
    /\ engine \in {"open", "reopened"}
    /\ Commit(findById(World, name, id))

Paginate(name, filters, options) ==
    /\ engine \in {"open", "reopened"}
    /\ Commit(paginate(World, name, filters, options))

\* Collection.drop()
Drop(name) ==
    /\ engine = "open"
    /\ Commit(drop(World, name))

\* db.dropCollection(name): the files change too, and a save in flight of
\* the collection dropped goes on with an object that is no longer in
\* collections
DropCollection(name) ==
    /\ engine = "open"
    /\ Settle(dropCollection(World, name, collectionName))
    /\ disk' = dropCollection(World, name, collectionName).w.disk
    /\ saves' = [n \in DOMAIN saves |->
                    IF n = collectionName THEN [saves[n] EXCEPT !.orphan = TRUE]
                    ELSE saves[n]]
    /\ UNCHANGED <<isSaving, tmp, clock, engine, closeWaits, closedData, http>>

\* a millisecond passes
Tick ==
    /\ clock < MaxClock
    /\ clock' = clock + 1
    /\ UNCHANGED <<heap, collections, queryCache, saveQueue, timers, isSaving,
                   saves, disk, tmp, engine, closeWaits, closedData, last, http>>

\* before the first request
NoRequest == Response("none", "", Null, TRUE, 0, Null, <<>>)

(***************************************************************************)
(* Saving: the timer of _scheduleSave, _flushToDisk with its two awaits    *)
(* (writeFile of the temporary file, rename over the file), close().       *)
(***************************************************************************)
\* the guards of _flushToDisk(name): no save of the collection is running,
\* the collection is in memory and dirty
CanFlush(name) ==
    /\ name \notin isSaving
    /\ name \in DOMAIN collections
    /\ collections[name].dirty

\* _flushToDisk(names) up to the await of writeFile, for names that pass the
\* guards: the text to write is made of the documents as they are now
FlushStart(names, by) ==
    /\ isSaving' = isSaving \cup names
    /\ saves' = [n \in DOMAIN saves \cup names |->
                    IF n \in names
                    THEN [content |-> Snapshot(heap, collections[n].data),
                          phase |-> "write", orphan |-> FALSE, by |-> by]
                    ELSE saves[n]]

\* the timer of saveQueue for name expires: _flushToDisk(name)
TimerFire(name) ==
    /\ name \in timers
    /\ timers' = timers \ {name}
    /\ IF CanFlush(name)
       THEN /\ FlushStart({name}, "timer")
            /\ saveQueue' = saveQueue \ {name}
       ELSE UNCHANGED <<isSaving, saves, saveQueue>>
    /\ UNCHANGED <<heap, collections, queryCache, disk, tmp, clock, engine,
                   closeWaits, closedData, last, http>>

\* a writeFile that would take the documents as they are when it completes,
\* not as they were when the save started: what a snapshot must not be
WriteDoneLate(name) ==
    /\ name \in DOMAIN saves
    /\ saves[name].phase = "write"
    /\ tmp' = MapSet(tmp, name,
                     IF name \in DOMAIN collections
                     THEN Snapshot(heap, collections[name].data)
                     ELSE saves[name].content)
    /\ saves' = [saves EXCEPT ![name].phase = "rename"]
    /\ UNCHANGED <<heap, collections, queryCache, saveQueue, timers, isSaving,
                   disk, clock, engine, closeWaits, closedData, last, http>>

\* fs.writeFile(tempPath, ...) completes
WriteDone(name) ==
    /\ name \in DOMAIN saves
    /\ saves[name].phase = "write"
    /\ tmp' = MapSet(tmp, name, saves[name].content)
    /\ saves' = [saves EXCEPT ![name].phase = "rename"]
    /\ UNCHANGED <<heap, collections, queryCache, saveQueue, timers, isSaving,
                   disk, clock, engine, closeWaits, closedData, last, http>>

\* what saveCollection(name) answers once it has run past its guards:
\* saveCollection is called on the adapter and leaves this.collectionName
\* alone, and the objects the caller of the latest request holds stay held
SavedReply(name) ==
    Response("saveCollection", collectionName, Str(name), TRUE, 0,
             Obj(<<E("saved", Bool(TRUE)), E("collection", Str(name))>>),
             last.docs)

\* the end of _flushToDisk(name) as its caller sees it: the timer and
\* saveCollections() look at nothing, saveCollection(name) goes on after its
\* await with col.dirty = false and answers success
FlushReturned(name, colls) ==
    /\ collections' =
           IF saves[name].by = "saveCollection" /\ ~saves[name].orphan
           THEN [colls EXCEPT ![name].dirty = FALSE]
           ELSE colls
    /\ last' = IF saves[name].by = "saveCollection" THEN SavedReply(name)
               ELSE last
    /\ saves' = MapDelete(saves, name)
    /\ isSaving' = isSaving \ {name}
    /\ closeWaits' = closeWaits \ {name}
    /\ engine' = IF engine = "closing" /\ closeWaits \ {name} = {}
                 THEN "closed" ELSE engine

\* fs.rename(tempPath, filePath) completes and _flushToDisk runs to its end:
\* lastSave, dirty = false on the collection object the save started with
\* (orphan: dropCollection took it out of collections meanwhile),
\* isSaving.delete(name); a close() that awaited this save as its last one
\* resolves
RenameDone(name) ==
    /\ name \in DOMAIN saves
    /\ saves[name].phase = "rename"
    /\ disk' = MapSet(disk, name, tmp[name])
    /\ tmp' = MapDelete(tmp, name)
    /\ FlushReturned(name,
                     IF saves[name].orphan THEN collections
                     ELSE [collections EXCEPT ![name].lastSave = DateNow(clock),
                                              ![name].dirty = FALSE])
    /\ UNCHANGED <<heap, queryCache, saveQueue, timers, clock, closedData, http>>

\* fs.writeFile or fs.rename rejects: the catch block of _flushToDisk sets
\* dirty on the collection object the save started with and calls
\* _scheduleSave(name), then isSaving.delete(name); the files stay as they
\* are
SaveFail(name) ==
    /\ name \in DOMAIN saves
    /\ FlushReturned(name, _scheduleSave(World, name).collections)
    /\ saveQueue' = _scheduleSave(World, name).saveQueue
    /\ timers' = _scheduleSave(World, name).timers
    /\ UNCHANGED <<heap, queryCache, disk, tmp, clock, closedData, http>>

\* saveCollection(name): 404 for a collection that is not in memory,
\* nothing to do for one that is not dirty; else the timer is cleared and
\* _flushToDisk(name) awaited, which returns at once when a save of the
\* collection is running
SaveCollection(name) ==
    /\ engine = "open"
    /\ IF name \notin DOMAIN collections
       THEN /\ last' = Response("saveCollection", collectionName, Str(name),
                                FALSE, 404, Null, last.docs)
            /\ UNCHANGED <<collections, saveQueue, timers, isSaving, saves>>
       ELSE IF ~collections[name].dirty
       THEN /\ last' = Response("saveCollection", collectionName, Str(name),
                                TRUE, 0,
                                Obj(<<E("saved", Bool(FALSE)),
                                      E("reason", Str("No changes"))>>),
                                last.docs)
            /\ UNCHANGED <<collections, saveQueue, timers, isSaving, saves>>
       ELSE /\ timers' = IF name \in saveQueue THEN timers \ {name} ELSE timers
            /\ saveQueue' = saveQueue \ {name}
            /\ IF name \in isSaving
               THEN /\ collections' = [collections EXCEPT ![name].dirty = FALSE]
                    /\ last' = SavedReply(name)
                    /\ UNCHANGED <<isSaving, saves>>
               ELSE /\ FlushStart({name}, "saveCollection")
                    /\ UNCHANGED <<collections, last>>
    /\ UNCHANGED <<heap, queryCache, disk, tmp, clock, engine, closeWaits,
                   closedData, http>>

\* the documents of every collection in memory, as values
Documents ==
    [n \in DOMAIN collections |->
        [i \in 1..Len(collections[n].data) |-> heap[collections[n].data[i]]]]

\* close(): saveCollections() clears the timers and the saveQueue, calls
\* _flushToDisk for every dirty collection and awaits the promises; a call
\* that returns at its guards has a promise that is already resolved
Close ==
    /\ engine = "open"
    /\ timers' = {}
    /\ saveQueue' = {}
    /\ FlushStart({n \in DOMAIN collections : CanFlush(n)}, "saveCollections")
    /\ closeWaits' = {n \in DOMAIN collections : CanFlush(n)}
    /\ engine' = IF {n \in DOMAIN collections : CanFlush(n)} = {}
                 THEN "closed" ELSE "closing"
    /\ closedData' = Documents
    /\ UNCHANGED <<heap, collections, queryCache, disk, tmp, clock, last, http>>

\* once close() has resolved and the saves still in flight have ended, a
\* new LocalAdapter is constructed on the same storagePath: its Maps are
\* empty, the files stay
Reopen ==
    /\ engine = "closed"
    /\ saves = <<>>
    /\ heap' = <<>>
    /\ collections' = <<>>
    /\ queryCache' = <<>>
    /\ saveQueue' = {}
    /\ timers' = {}
    /\ isSaving' = {}
    /\ saves' = <<>>
    /\ closeWaits' = {}
    /\ engine' = "reopened"
    /\ last' = NoRequest
    /\ UNCHANGED <<disk, tmp, clock, closedData, http>>

(***************************************************************************)
(* HTTPAdapter: the pool of requests. A request is a record [id, retries]; *)
(* an _execute call in flight is the request as it was when it started, so *)
(* that the call of a retry differs from the call it retries.              *)
(*   requestQueue    the requests waiting                                  *)
(*   activeRequests  the counter of _processQueue                          *)
(*   executing       the _execute calls whose promise is pending           *)
(*   destroyed       the number of requests the timer has destroyed whose  *)
(*                   'error' event has not been emitted yet                *)
(*   immediates      the setImmediate callbacks not yet run                *)
(*   requests        by id: the promise request() returned (state, and     *)
(*                   calls, the number of times req.resolve or req.reject  *)
(*                   was called) and executions, the number of _execute    *)
(*                   calls made for it                                     *)
(*   outcome         how the last _execute call that ended did end         *)
(***************************************************************************)
MaxRequests == 3

\* opts.poolSize and opts.maxRetries of the adapter under study
poolSize == 2

maxRetries == 1

store == <<heap, collections, queryCache, saveQueue, timers, isSaving, saves,
           disk, tmp, clock, engine, closeWaits, closedData, last>>

NoOutcome == [ok |-> TRUE, code |-> "", message |-> ""]

NewHTTPAdapter ==
    [requestQueue |-> <<>>, activeRequests |-> 0, executing |-> {},
     destroyed |-> 0, immediates |-> 0, requests |-> <<>>,
     outcome |-> NoOutcome]

\* new Error(message), and the errors of net and dns, which carry a code
Error(message) == [code |-> "", message |-> message]

SocketErrors ==
    { [code |-> "ECONNRESET", message |-> "read ECONNRESET"],
      [code |-> "ECONNRESET", message |-> "socket hang up"],
      [code |-> "ECONNREFUSED", message |-> "connect ECONNREFUSED 127.0.0.1:8050"],
      [code |-> "EAI_AGAIN", message |-> "getaddrinfo EAI_AGAIN db.example"],
      [code |-> "EPIPE", message |-> "write EPIPE"] }

\* the responses of the server: the status and the error of the parsed body
Responses ==
    { [statusCode |-> 200, error |-> ""],
      [statusCode |-> 500, error |-> "Internal error"],
      [statusCode |-> 503, error |-> "lock wait timeout"] }

\* `${res.statusCode}` for the statuses above
StatusText(statusCode) ==
    CASE statusCode = 200 -> "200"
      [] statusCode = 500 -> "500"
      [] statusCode = 503 -> "503"

\* String.prototype.includes
includes(string, part) ==
    \E i \in 1..(Len(string) - Len(part) + 1) :
        SubSeq(string, i, i + Len(part) - 1) = part

_retryable(err) ==
    IF err.message = "" THEN FALSE
    ELSE \/ includes(err.message, "timeout")
         \/ includes(err.message, "ECONNRESET")
         \/ includes(err.message, "ECONNREFUSED")
         \/ includes(err.message, "EAI_AGAIN")

\* _processQueue with > for >= in its guard
_processQueueOffByOne(h) ==
    IF h.activeRequests > poolSize \/ Len(h.requestQueue) = 0 THEN h
    ELSE LET req == Head(h.requestQueue) IN
         [h EXCEPT !.requestQueue = Tail(@),
                   !.activeRequests = @ + 1,
                   !.executing = @ \cup {req},
                   !.requests[req.id].executions = @ + 1]

\* _processQueue up to the call of _execute
_processQueue(h) ==
    IF h.activeRequests >= poolSize \/ Len(h.requestQueue) = 0 THEN h
    ELSE LET req == Head(h.requestQueue) IN
         [h EXCEPT !.requestQueue = Tail(@),
                   !.activeRequests = @ + 1,
                   !.executing = @ \cup {req},
                   !.requests[req.id].executions = @ + 1]

_enqueue(h, req) ==
    _processQueue([h EXCEPT !.requestQueue = Append(@, req)])

\* request(): a new promise, whose resolve and reject travel with the request
request(h) ==
    _enqueue([h EXCEPT !.requests =
                  Append(@, [state |-> "pending", calls |-> 0, executions |-> 0])],
             [id |-> Len(h.requests) + 1, retries |-> 0])

\* req.resolve or req.reject: a promise keeps its first settlement
settle(promise, state) ==
    [promise EXCEPT !.state = IF @ = "pending" THEN state ELSE @,
                    !.calls = @ + 1]

\* the reactions of _processQueue to the promise of _execute(req):
\* .then(req.resolve), .catch (retry or req.reject), .finally
executed(h, req, ok, err) ==
    LET ended == [h EXCEPT !.executing = @ \ {req},
                           !.outcome = [ok |-> ok, code |-> err.code,
                                        message |-> err.message]]
        reacted ==
            IF ok
            THEN [ended EXCEPT !.requests[req.id] = settle(@, "resolved")]
            ELSE IF req.retries < maxRetries /\ _retryable(err)
            THEN [ended EXCEPT !.requestQueue =
                      <<[req EXCEPT !.retries = @ + 1]>> \o @]
            ELSE [ended EXCEPT !.requests[req.id] = settle(@, "rejected")]
    IN  [reacted EXCEPT !.activeRequests = @ - 1, !.immediates = @ + 1]

\* a caller calls request()
Request ==
    /\ Len(http.requests) < MaxRequests
    /\ http' = request(http)
    /\ UNCHANGED store

\* _execute: the response has ended
ResponseEnd(req, res) ==
    /\ req \in http.executing
    /\ http' = IF res.statusCode >= 200 /\ res.statusCode < 300
               THEN executed(http, req, TRUE, Error(""))
               ELSE executed(http, req, FALSE,
                             Error("HTTP " \o StatusText(res.statusCode)
                                   \o ": " \o res.error))
    /\ UNCHANGED store

\* _execute: the request emits 'error' before any response has ended
SocketError(req, err) ==
    /\ req \in http.executing
    /\ http' = executed(http, req, FALSE, err)
    /\ UNCHANGED store

\* _execute: the timer fires, destroys the request and rejects
Timeout(req) ==
    /\ req \in http.executing
    /\ http' = [executed(http, req, FALSE, Error("Request timeout"))
                   EXCEPT !.destroyed = @ + 1]
    /\ UNCHANGED store

\* a destroyed request emits 'error': the handler rejects the promise of
\* _execute once more, which has no effect
LateError ==
    /\ http.destroyed > 0
    /\ http' = [http EXCEPT !.destroyed = @ - 1]
    /\ UNCHANGED store

\* the callback given to setImmediate by .finally
ProcessQueueLater ==
    /\ http.immediates > 0
    /\ http' = _processQueue([http EXCEPT !.immediates = @ - 1])
    /\ UNCHANGED store

Requests ==
    {[id |-> i, retries |-> r] : i \in 1..MaxRequests, r \in 0..maxRetries}

Ends(req) ==
    \/ \E res \in Responses : ResponseEnd(req, res)
    \/ \E err \in SocketErrors : SocketError(req, err)
    \/ Timeout(req)

Init ==
    /\ heap = <<>>
    /\ collections = <<>>
    /\ queryCache = <<>>
    /\ saveQueue = {}
    /\ timers = {}
    /\ isSaving = {}
    /\ saves = <<>>
    /\ disk = <<>>
    /\ tmp = <<>>
    /\ clock = 0
    /\ engine = "open"
    /\ closeWaits = {}
    /\ closedData = <<>>
    /\ last = NoRequest
    /\ http = NewHTTPAdapter

(***************************************************************************)
(* The requests of the specifications below, drawn from small sets.        *)
(***************************************************************************)
Users == "users"

\* documents an application inserts
DocA1 == Obj(<<E("a", Num(1))>>)
DocA2 == Obj(<<E("a", Num(2))>>)
DocX1 == Obj(<<E("id", Str("x")), E("a", Num(1))>>)
DocX2 == Obj(<<E("id", Str("x")), E("a", Num(2)), E("b", Num(1))>>)
DocYn == Obj(<<E("id", Str("y")), E("a", Num(1)), E("n", Null)>>)
RandomIds == {"9f3c2a7d41b8e605"}

FilterA1 == Obj(<<E("a", Num(1))>>)
NoFilter == Obj(<<>>)
SetA2 == Obj(<<E("$set", Obj(<<E("a", Num(2))>>))>>)
SetIdY == Obj(<<E("$set", Obj(<<E("id", Str("y"))>>))>>)
SetNB == Obj(<<E("$set", Obj(<<E("n.b", Num(2))>>))>>)
Ids == {Str("x"), Str("y")}
IndexDefs == {<<E("b", Num(1))>>, <<E("a", Num(1))>>}

(***************************************************************************)
(* Spec: documents and ids. Inserts with an id, upserts, updates that set  *)
(* a field or the id, deletes; no index is registered, no query is cached  *)
(* and no save timer expires.                                              *)
(***************************************************************************)
Next ==
    \/ \E data \in {DocX1, DocX2, DocYn}, rid \in RandomIds :
           Insert(Users, data, rid)
    \/ \E id \in Ids, u \in {SetA2, SetIdY} : UpdateById(Users, id, u)
    \/ Delete(Users, FilterA1)
    \/ \E id \in Ids : DeleteById(Users, id)
    \/ Tick

Spec == Init /\ [][Next]_vars

(***************************************************************************)
(* SpecBatch: inserts of one document without id and of batches, one of    *)
(* them with an element that is null, and an update of a dotted path that  *)
(* meets a null.                                                           *)
(***************************************************************************)
NextBatch ==
    \/ \E data \in {DocA1, DocYn, Arr(<<DocA1, DocA2>>), Arr(<<DocX1, Null>>)},
          rid \in RandomIds : Insert(Users, data, rid)
    \/ Update(Users, FilterA1, SetNB)
    \/ \E id \in Ids : DeleteById(Users, id)
    \/ Tick

SpecBatch == Init /\ [][NextBatch]_vars

(***************************************************************************)
(* SpecPersist: writes, the save timer, the two awaits of a save, close()  *)
(* and a new engine on the same storagePath that reads the collection.     *)
(***************************************************************************)
NextPersist ==
    \/ \E data \in {DocX1, DocYn}, rid \in RandomIds : Insert(Users, data, rid)
    \/ DeleteById(Users, Str("x"))
    \/ TimerFire(Users)
    \/ WriteDone(Users)
    \/ RenameDone(Users)
    \/ Close
    \/ Reopen
    \/ engine = "reopened" /\ Find(Users, NoFilter)
    \/ Tick

SpecPersist == Init /\ [][NextPersist]_vars

(***************************************************************************)
(* SpecIndex: secondary indexes under inserts, upserts, updates and        *)
(* deletes.                                                                *)
(***************************************************************************)
NextIndex ==
    \/ \E data \in {DocX1, DocX2, DocYn}, rid \in RandomIds :
           Insert(Users, data, rid)
    \/ \E def \in IndexDefs : CreateIndex(Users, def)
    \/ UpdateById(Users, Str("x"), SetA2)
    \/ Delete(Users, FilterA1)
    \/ DeleteById(Users, Str("x"))

SpecIndex == Init /\ [][NextIndex]_vars

(***************************************************************************)
(* SpecCache: find and count through the query cache, between writes.      *)
(***************************************************************************)
NextCache ==
    \/ \E data \in {DocX1, DocYn}, rid \in RandomIds : Insert(Users, data, rid)
    \/ UpdateById(Users, Str("x"), SetA2)
    \/ DeleteById(Users, Str("x"))
    \/ Count(Users, FilterA1)
    \/ Find(Users, FilterA1)

SpecCache == Init /\ [][NextCache]_vars

(***************************************************************************)
(* SpecStamps: createdAt and updatedAt under inserts, upserts and updates, *)
(* one of which sets createdAt.                                            *)
(***************************************************************************)
SetCreatedAt ==
    Obj(<<E("$set", Obj(<<E("createdAt", Str("1999-01-01T00:00:00.000Z"))>>))>>)

NextStamps ==
    \/ \E data \in {DocX1, DocX2, DocYn}, rid \in RandomIds :
           Insert(Users, data, rid)
    \/ \E u \in {SetA2, SetCreatedAt} : UpdateById(Users, Str("x"), u)
    \/ DeleteById(Users, Str("x"))
    \/ Tick

SpecStamps == Init /\ [][NextStamps]_vars

(***************************************************************************)
(* SpecQuery: find and count with the logical operators, $mod and $regex.  *)
(***************************************************************************)
FilterNor == Obj(<<E("$nor", Arr(<<Obj(<<E("a", Num(2))>>)>>))>>)
FilterMod == Obj(<<E("a", Obj(<<E("$mod", Arr(<<Num(2), Num(1)>>))>>))>>)
FilterRegexI ==
    Obj(<<E("id", Obj(<<E("$regex", Str("X")), E("$options", Str("i"))>>))>>)
FilterRegex == Obj(<<E("id", Obj(<<E("$regex", Str("x"))>>))>>)

NoOptions == Obj(<<>>)
LimitAll == Obj(<<E("limit", Str("all"))>>)
Limit0 == Obj(<<E("limit", Num(0))>>)
Skip1Limit1 == Obj(<<E("skip", Num(1)), E("limit", Num(1))>>)
SortADesc == Obj(<<E("sort", Obj(<<E("a", Num(-1))>>)), E("limit", Num(1))>>)
FieldsA0 == Obj(<<E("fields", Obj(<<E("a", Num(0))>>))>>)
FieldsAFalse == Obj(<<E("fields", Obj(<<E("a", Bool(FALSE))>>))>>)

NextQuery ==
    \/ \E data \in {DocX1, DocYn}, rid \in RandomIds : Insert(Users, data, rid)
    \/ Count(Users, FilterNor)
    \/ \E filters \in {FilterNor, FilterMod, FilterRegexI, FilterRegex} :
           FindWith(Users, filters, LimitAll)

SpecQuery == Init /\ [][NextQuery]_vars

(***************************************************************************)
(* SpecPage: the options of find (sort, skip, limit, fields) and findOne   *)
(* over documents inserted at different instants.                          *)
(***************************************************************************)
NextPage ==
    \/ \E data \in {DocX1, DocX2, DocYn}, rid \in RandomIds :
           Insert(Users, data, rid)
    \/ \E options \in {NoOptions, Limit0, Skip1Limit1, SortADesc, FieldsA0,
                       FieldsAFalse} :
           FindWith(Users, NoFilter, options)
    \/ FindOne(Users, NoFilter, NoOptions)
    \/ Tick

SpecPage == Init /\ [][NextPage]_vars

(***************************************************************************)
(* SpecRead: the application writes into the documents it was handed by    *)
(* find, findOne, findById and updateById.                                 *)
(***************************************************************************)
\* the operations whose envelope hands documents to the caller
ReadOps == {"find", "findOne", "findById", "updateById"}

\* the caller sets the field m of element i of the data it was returned
\* last (doc.m = 1): the object written is the one the envelope holds
CallerWrites(i) ==
    /\ last.op \in ReadOps
    /\ i \in 1..Len(last.docs)
    /\ ~Has(heap[last.docs[i]], "m")
    /\ heap' = [heap EXCEPT ![last.docs[i]] = Put(@, "m", Num(1))]
    /\ UNCHANGED <<collections, queryCache, saveQueue, timers, isSaving, saves,
                   disk, tmp, clock, engine, closeWaits, closedData, last, http>>

NextRead ==
    \/ \E data \in {DocX1, DocYn}, rid \in RandomIds : Insert(Users, data, rid)
    \/ \E options \in {NoOptions, FieldsAFalse} :
           FindWith(Users, NoFilter, options)
    \/ FindOne(Users, NoFilter, NoOptions)
    \/ FindById(Users, Str("x"))
    \/ UpdateById(Users, Str("x"), SetA2)
    \/ \E i \in 1..MaxDocs : CallerWrites(i)

SpecRead == Init /\ [][NextRead]_vars

(***************************************************************************)
(* SpecDrop: two collections, their saves, Collection.drop and             *)
(* db.dropCollection.                                                      *)
(***************************************************************************)
Posts == "posts"

NextDrop ==
    \/ \E name \in {Users, Posts}, rid \in RandomIds : Insert(name, DocX1, rid)
    \/ \E name \in {Users, Posts} : TimerFire(name)
    \/ \E name \in {Users, Posts} : WriteDone(name)
    \/ \E name \in {Users, Posts} : RenameDone(name)
    \/ Drop(Users)
    \/ \E name \in {Users, Posts} : DropCollection(name)

SpecDrop == Init /\ [][NextDrop]_vars

(***************************************************************************)
(* SpecDelete: delete by filter over documents with and without a match.   *)
(***************************************************************************)
FilterA2 == Obj(<<E("a", Num(2))>>)
DocZ2 == Obj(<<E("id", Str("z")), E("a", Num(2))>>)

NextDelete ==
    \/ \E data \in {DocX1, DocX2, DocYn, DocZ2}, rid \in RandomIds :
           Insert(Users, data, rid)
    \/ \E filters \in {FilterA1, FilterA2, FilterNor, NoFilter} :
           Delete(Users, filters)

SpecDelete == Init /\ [][NextDelete]_vars

(***************************************************************************)
(* SpecCreateIndex: createIndex with definitions of one and two fields,    *)
(* registered once and again, over documents that lack a field.            *)
(***************************************************************************)
IndexAB == <<E("a", Num(1)), E("b", Num(1))>>
IndexB == <<E("b", Num(1))>>
IndexBDesc == <<E("b", Num(-1))>>
IndexOneName == <<E("a:1|b", Num(1))>>

NextCreateIndex ==
    \/ \E data \in {DocX1, DocX2, DocYn}, rid \in RandomIds :
           Insert(Users, data, rid)
    \/ \E def \in {IndexAB, IndexB, IndexBDesc, IndexOneName} :
           CreateIndex(Users, def)

SpecCreateIndex == Init /\ [][NextCreateIndex]_vars

(***************************************************************************)
(* SpecPaginate: pages of one and two documents, the page past the last    *)
(* one included.                                                           *)
(***************************************************************************)
PageOptions(page, limit) == Obj(<<E("page", Num(page)), E("limit", Num(limit))>>)
Pages == 1..3
Limits == 1..2

NextPaginate ==
    \/ \E data \in {DocX1, DocYn, DocZ2}, rid \in RandomIds :
           Insert(Users, data, rid)
    \/ \E page \in Pages, limit \in Limits :
           Paginate(Users, NoFilter, PageOptions(page, limit))
    \/ DeleteById(Users, Str("x"))

SpecPaginate == Init /\ [][NextPaginate]_vars

(***************************************************************************)
(* SpecDeep: filters whose expected value is a document or an array.       *)
(***************************************************************************)
DocNb1 == Obj(<<E("id", Str("x")), E("n", Obj(<<E("b", Num(1))>>))>>)
DocNb2 == Obj(<<E("id", Str("y")), E("n", Obj(<<E("b", Num(2))>>))>>)
DocTags == Obj(<<E("id", Str("z")), E("tags", Arr(<<Num(1), Num(2)>>))>>)
FilterNb1 == Obj(<<E("n", Obj(<<E("b", Num(1))>>))>>)
FilterTags == Obj(<<E("tags", Arr(<<Num(1), Num(2)>>))>>)

NextDeep ==
    \/ \E data \in {DocNb1, DocNb2, DocTags}, rid \in RandomIds :
           Insert(Users, data, rid)
    \/ \E filters \in {FilterNb1, FilterTags} :
           FindWith(Users, filters, NoOptions)

SpecDeep == Init /\ [][NextDeep]_vars

(***************************************************************************)
(* SpecDirty: writes, among them an update that changes one document and   *)
(* throws at the next, with the save timer and the two awaits of a save.   *)
(***************************************************************************)
NextDirty ==
    \/ \E data \in {DocX1, DocYn}, rid \in RandomIds : Insert(Users, data, rid)
    \/ Update(Users, FilterA1, SetNB)
    \/ TimerFire(Users)
    \/ WriteDone(Users)
    \/ RenameDone(Users)

SpecDirty == Init /\ [][NextDirty]_vars

(***************************************************************************)
(* SpecSaveFail: saves started by the timer, by saveCollection(name) and   *)
(* by close(), whose writeFile or rename may reject.                       *)
(***************************************************************************)
NextSaveFail ==
    \/ \E data \in {DocX1, DocYn}, rid \in RandomIds : Insert(Users, data, rid)
    \/ TimerFire(Users)
    \/ SaveCollection(Users)
    \/ WriteDone(Users)
    \/ RenameDone(Users)
    \/ SaveFail(Users)
    \/ Close

SpecSaveFail == Init /\ [][NextSaveFail]_vars

(***************************************************************************)
(* SpecUpdate: update() with $set of a field, of a dotted path and of id,  *)
(* and with $unset and $pull of dotted paths, over documents that lack the *)
(* path, hold an object, a number or null on it.                           *)
(***************************************************************************)
DocWc == Obj(<<E("id", Str("w")), E("a", Num(1)), E("n", Obj(<<E("c", Num(1))>>))>>)
UnsetNB == Obj(<<E("$unset", Obj(<<E("n.b", Str(""))>>))>>)
PullAB == Obj(<<E("$pull", Obj(<<E("a.b", Num(1))>>))>>)

NextUpdate ==
    \/ \E data \in {DocX1, DocYn, DocWc}, rid \in RandomIds :
           Insert(Users, data, rid)
    \/ \E filters \in {FilterA1, FilterA2}, u \in {SetNB, SetIdY} :
           Update(Users, filters, u)
    \/ \E u \in {UnsetNB, PullAB} : Update(Users, NoFilter, u)

SpecUpdate == Init /\ [][NextUpdate]_vars

(***************************************************************************)
(* SpecLogic: delete() with filters that hold a logical operator beside a  *)
(* field predicate, and with operator maps of the same operators in two    *)
(* orders, over documents with and without the field.                      *)
(***************************************************************************)
FilterOrA2 == Obj(<<E("a", Num(2)), E("$or", Arr(<<Obj(<<E("id", Str("x"))>>)>>))>>)
FilterNeGt == Obj(<<E("b", Obj(<<E("$ne", Num(5)), E("$gt", Num(0))>>))>>)
FilterGtNe == Obj(<<E("b", Obj(<<E("$gt", Num(0)), E("$ne", Num(5))>>))>>)
FilterNotLt == Obj(<<E("a", Obj(<<E("$not", Obj(<<E("$gt", Num(5))>>)),
                                  E("$lt", Num(2))>>))>>)

NextLogic ==
    \/ \E data \in {DocX1, DocX2, DocYn, DocZ2}, rid \in RandomIds :
           Insert(Users, data, rid)
    \/ \E filters \in {FilterOrA2, FilterNotLt, FilterNeGt, FilterGtNe} :
           Delete(Users, filters)

SpecLogic == Init /\ [][NextLogic]_vars

(***************************************************************************)
(* SpecReadOnly: count, find with sort, skip, limit and projections (an    *)
(* exclusion of a dotted path among them), findOne, findById and paginate  *)
(* over documents with a nested object, a null and no such field.          *)
(***************************************************************************)
FieldsNBFalse == Obj(<<E("fields", Obj(<<E("n.b", Bool(FALSE))>>))>>)
FieldsA1 == Obj(<<E("fields", Obj(<<E("a", Num(1))>>))>>)

NextReadOnly ==
    \/ \E data \in {DocNb1, DocYn, DocZ2}, rid \in RandomIds :
           Insert(Users, data, rid)
    \/ Count(Users, NoFilter)
    \/ \E options \in {SortADesc, Skip1Limit1, FieldsAFalse, FieldsA1,
                       FieldsNBFalse} :
           FindWith(Users, NoFilter, options)
    \/ FindOne(Users, NoFilter, NoOptions)
    \/ FindById(Users, Str("x"))
    \/ Paginate(Users, NoFilter, PageOptions(1, 1))

SpecReadOnly == Init /\ [][NextReadOnly]_vars

(***************************************************************************)
(* SpecIsolation: two collections of one engine, read with the same        *)
(* filter.                                                                 *)
(***************************************************************************)
NextIsolation ==
    \/ \E data \in {DocX1, DocZ2}, rid \in RandomIds : Insert(Users, data, rid)
    \/ \E rid \in RandomIds : Insert(Posts, DocYn, rid)
    \/ \E name \in {Users, Posts} : Find(name, FilterA1)
    \/ \E name \in {Users, Posts} : Count(name, FilterA1)

SpecIsolation == Init /\ [][NextIsolation]_vars

(***************************************************************************)
(* SpecLive: inserts, the save timer and the two awaits of a save, with a  *)
(* process that keeps running: a timer that is armed expires, and a        *)
(* writeFile or a rename that was started completes.                       *)
(***************************************************************************)
NextLive ==
    \/ \E data \in {DocX1, DocYn}, rid \in RandomIds : Insert(Users, data, rid)
    \/ TimerFire(Users)
    \/ WriteDone(Users)
    \/ RenameDone(Users)

SpecLive ==
    /\ Init /\ [][NextLive]_vars
    /\ WF_vars(TimerFire(Users))
    /\ WF_vars(WriteDone(Users))
    /\ WF_vars(RenameDone(Users))

(***************************************************************************)
(* SpecDropSave: one collection, its saves, and dropCollection while a     *)
(* save of it is in flight; inserts under the same name afterwards.        *)
(***************************************************************************)
NextDropSave ==
    \/ \E data \in {DocX1, DocYn}, rid \in RandomIds : Insert(Users, data, rid)
    \/ TimerFire(Users)
    \/ WriteDone(Users)
    \/ RenameDone(Users)
    \/ DropCollection(Users)

SpecDropSave == Init /\ [][NextDropSave]_vars

(***************************************************************************)
(* The HTTPAdapter alone: callers call request(), the _execute calls end   *)
(* one way or another, the event loop runs the setImmediate callbacks.     *)
(* The event loop runs a callback it holds, hence the weak fairness of     *)
(* ProcessQueueLater; SpecRetry adds that every _execute call ends, which  *)
(* its timer sees to.                                                      *)
(***************************************************************************)
NextPool ==
    \/ Request
    \/ \E req \in Requests, res \in Responses : ResponseEnd(req, res)
    \/ \E req \in Requests, err \in SocketErrors : SocketError(req, err)
    \/ \E req \in Requests : Timeout(req)
    \/ LateError
    \/ ProcessQueueLater

SpecPool ==
    /\ Init /\ [][NextPool]_vars
    /\ WF_vars(ProcessQueueLater)

SpecRetry ==
    /\ Init /\ [][NextPool]_vars
    /\ WF_vars(ProcessQueueLater)
    /\ \A req \in Requests : WF_vars(Ends(req))

(***************************************************************************)
(* What the documentation states of the store, as formulas over the model. *)
(***************************************************************************)
\* the documents of a collection by position, as values
Docs(name) ==
    IF name \in DOMAIN collections
    THEN [i \in 1..Len(collections[name].data) |-> heap[collections[name].data[i]]]
    ELSE <<>>

\* the ids of the documents of a collection by position
IdsOf(name) == [i \in 1..Len(Docs(name)) |-> Get(Docs(name)[i], "id")]

\* C1: find(F) and count(F) answer with exactly the documents of the
\* current data that match F, whatever was written since the cache was
\* filled. `last` is the latest request; every write is a request.
CacheTransparency ==
    LET filter == Get(last.args.v, "filters")
        current == Filtered(heap, collections[last.name].data, filter)
    IN  /\ (last.op = "find" /\ last.code # 500) => last.docs = current
        /\ last.op = "count" => last.data = Num(Len(current))

\* C2: idIndex is exact in every state: each document with a defined id is
\* indexed at its position, and idIndex has no key that is not the id of a
\* document of data.
IdIndexExact ==
    \A n \in DOMAIN collections :
        /\ \A i \in 1..Len(Docs(n)) :
               Get(Docs(n)[i], "id").t # "undefined"
                   => /\ Get(Docs(n)[i], "id") \in DOMAIN collections[n].idIndex
                      /\ collections[n].idIndex[Get(Docs(n)[i], "id")] = i - 1
        /\ \A id \in DOMAIN collections[n].idIndex :
               \E i \in 1..Len(Docs(n)) : Get(Docs(n)[i], "id") = id

\* the leaves of the Map of an index: <<values down the fields, positions>>
RECURSIVE Leaves(_, _)
Leaves(node, depth) ==
    IF depth = 0 THEN {<<<<>>, node>>}
    ELSE UNION {{<<<<value>> \o leaf[1], leaf[2]>> :
                     leaf \in Leaves(node[value], depth - 1)} :
                value \in DOMAIN node}

\* one index is consistent with the documents docs
IndexConsistent(index, docs) ==
    LET leaves == Leaves(index.map, Len(index.fields))
        values(doc) == [f \in 1..Len(index.fields) |-> Get(doc, index.fields[f])]
    IN  /\ \A leaf \in leaves : \A j \in 1..Len(leaf[2]) :
               /\ leaf[2][j] \in 0..(Len(docs) - 1)
               /\ values(docs[leaf[2][j] + 1]) = leaf[1]
               /\ \A k \in 1..Len(leaf[2]) : k # j => leaf[2][k] # leaf[2][j]
        /\ \A i \in 1..Len(docs) :
               Indexed(docs[i], index.fields)
                   => \E leaf \in leaves :
                          /\ leaf[1] = values(docs[i])
                          /\ \E j \in 1..Len(leaf[2]) : leaf[2][j] = i - 1

\* C3: after every operation every registered secondary index is
\* consistent with data: a document with all the indexed fields is there
\* once, under its values and at its position, the others are absent, and
\* every position is a valid index into data.
IndexesConsistent ==
    \A n \in DOMAIN collections :
        \A x \in 1..Len(collections[n].indexes) :
            IndexConsistent(collections[n].indexes[x], Docs(n))

\* the file of a collection holds its documents as they are in memory
Persisted(name) ==
    IF name \in DOMAIN disk
    THEN disk[name] = Snapshot(heap, collections[name].data)
    ELSE collections[name].data = <<>>

\* C4: when close() resolves, the file of every collection equals its data
\* in memory, no save is in flight and no timer is pending.
CloseFlushesEverything ==
    [][(engine # "closed" /\ engine' = "closed")
           => /\ saves' = <<>>
              /\ isSaving' = {}
              /\ timers' = {}
              /\ \A n \in DOMAIN collections' : Persisted(n)']_vars

\* C5: a new engine on the same storagePath loads, for a collection, the
\* documents that were in memory when close() was called: the same ids, the
\* same values of the fields, the same order.
SnapshotRoundTrip ==
    (engine = "reopened" /\ Users \in DOMAIN collections
                         /\ Users \in DOMAIN closedData)
        => /\ Len(Docs(Users)) = Len(closedData[Users])
           /\ \A i \in 1..Len(Docs(Users)) :
                  Range(Docs(Users)[i]) = Range(closedData[Users][i])

\* C6: in every state in which a collection is not dirty and no save of it
\* is in flight, its last renamed snapshot equals its data in memory.
DirtyIffUnpersisted ==
    \A n \in DOMAIN collections :
        (~collections[n].dirty /\ n \notin isSaving) => Persisted(n)

\* what all-or-nothing is about: documents, idIndex and secondary indexes
Stored(name) ==
    IF name \in DOMAIN collections
    THEN [docs |-> Docs(name), idIndex |-> collections[name].idIndex,
          indexes |-> collections[name].indexes]
    ELSE [docs |-> <<>>, idIndex |-> <<>>, indexes |-> <<>>]

\* C7: a write that returns success:false leaves the documents, the idIndex
\* and the secondary indexes of the collection as they were before the
\* call. Only a request changes `last`, and no other step changes Stored.
AllOrNothing ==
    [][\A n \in DOMAIN collections' :
           (/\ last'.name = n
            /\ last'.op \in {"insert", "update", "updateById", "delete",
                             "deleteById"}
            /\ ~last'.success)
               => Stored(n)' = Stored(n)]_vars

\* an upsert of input over the document old at time now
IsMerged(new, old, input, now) ==
    /\ \A i \in 1..Len(input) : Get(new, input[i].k) = input[i].v
    /\ \A i \in 1..Len(old) :
           (~Has(input, old[i].k) /\ old[i].k # "updatedAt")
               => Get(new, old[i].k) = old[i].v
    /\ Get(new, "createdAt") = Get(old, "createdAt")
    /\ Get(new, "updatedAt") = Str(toISOString(now))

\* C8: an insert of a document whose id is the id of a document of the
\* collection adds no document: it merges the input over that document,
\* keeps createdAt, sets updatedAt and answers insertedCount 0,
\* updatedCount 1.
UpsertMerges ==
    [][\A doc \in {DocX1, DocX2, DocYn}, rid \in RandomIds :
           (/\ Insert(Users, doc, rid)
            /\ \E i \in 1..Len(IdsOf(Users)) :
                   IdsOf(Users)[i] = Get(doc.v, "id"))
               => /\ Len(Docs(Users)') = Len(Docs(Users))
                  /\ Get(last'.data.v, "insertedCount") = Num(0)
                  /\ Get(last'.data.v, "updatedCount") = Num(1)
                  /\ \A i \in 1..Len(IdsOf(Users)) :
                         IdsOf(Users)[i] = Get(doc.v, "id")
                             => IsMerged(Docs(Users)'[i], Docs(Users)[i],
                                         doc.v, clock)]_vars

\* C9: an insert of two documents without ids answers insertedCount 2 and
\* updatedCount 0, and appends two documents in the order of the input
\* with the ids <prefix>_1 and <prefix>_2, whatever was inserted before.
BatchIdsSequential ==
    [][\A rid \in RandomIds :
           Insert(Users, Arr(<<DocA1, DocA2>>), rid)
               => LET n == Len(Docs(Users))
                      prefix == toString36(DateNow(clock))
                  IN  /\ Get(last'.data.v, "insertedCount") = Num(2)
                      /\ Get(last'.data.v, "updatedCount") = Num(0)
                      /\ Len(Docs(Users)') = n + 2
                      /\ \A i \in 1..n : Docs(Users)'[i] = Docs(Users)[i]
                      /\ IdsOf(Users)'[n + 1] = Str(prefix \o "_1")
                      /\ IdsOf(Users)'[n + 2] = Str(prefix \o "_2")
                      /\ Get(Docs(Users)'[n + 1], "a") = Num(1)
                      /\ Get(Docs(Users)'[n + 2], "a") = Num(2)]_vars

\* C10: no two documents of a collection have the same id, and an update
\* leaves every document the id it had.
IdsUniqueAndStable ==
    [][/\ \A i, j \in 1..Len(IdsOf(Users)') :
              i # j => IdsOf(Users)'[i] # IdsOf(Users)'[j]
       /\ (\E id \in Ids, u \in {SetA2, SetIdY} : UpdateById(Users, id, u))
              => IdsOf(Users)' = IdsOf(Users)]_vars

\* C11: an upsert, an update or an updateById leaves every document of the
\* collection the createdAt it had, whatever the update sets.
CreatedAtNeverModified ==
    [][(\/ \E doc \in {DocX1, DocX2, DocYn}, rid \in RandomIds :
               Insert(Users, doc, rid)
        \/ \E u \in {SetA2, SetCreatedAt} : UpdateById(Users, Str("x"), u))
           => \A i \in 1..Len(Docs(Users)) :
                  /\ i <= Len(Docs(Users)')
                  /\ Get(Docs(Users)'[i], "createdAt")
                         = Get(Docs(Users)[i], "createdAt")]_vars

\* find({}) answers with one document, whose createdAt and updatedAt are
\* set and equal
OneDocumentStamped ==
    LET r == findWith(World, Users, NoFilter, Obj(<<>>))
    IN  /\ r.resp.success
        /\ Len(r.resp.docs) = 1
        /\ \A i \in 1..Len(r.resp.docs) :
               LET doc == r.w.heap[r.resp.docs[i]]
               IN  /\ Get(doc, "createdAt").t = "string"
                   /\ Get(doc, "updatedAt") = Get(doc, "createdAt")

\* C12: after the insert of a document into an empty collection, find({})
\* returns one document that carries createdAt and updatedAt, and the two
\* are equal.
FreshInsertStamped ==
    [][((\E doc \in {DocX1, DocX2, DocYn}, rid \in RandomIds :
             Insert(Users, doc, rid))
        /\ Docs(Users) = <<>>)
           => OneDocumentStamped']_vars

\* the documents of a collection by position, as addresses
Data(name) == IF name \in DOMAIN collections THEN collections[name].data ELSE <<>>

\* C13: for every filter F of the language, with $nor, $mod and $regex
\* with $options among them, count(F) answers with the number of documents
\* find(F, { limit: "all" }) returns.
CountEqualsFind ==
    \A F \in {FilterA1, FilterNor, FilterMod, FilterRegexI, FilterRegex} :
        count(World, Users, F).resp.data
            = Num(Len(findWith(World, Users, F, LimitAll).resp.docs))

\* C14: find with $nor, with $mod and with $regex and $options returns the
\* documents matchesFilter matches, and succeeds when there is one.
FindAcceptsEveryOperator ==
    \A F \in {FilterNor, FilterMod, FilterRegexI} :
        LET r == findWith(World, Users, F, NoOptions)
        IN  /\ r.resp.docs = Filtered(heap, Data(Users), F)
            /\ r.resp.docs # <<>> => r.resp.success

\* C15: Collection.drop() succeeds, on a collection without documents or
\* without a file as well, and leaves nothing of the collection: no entry
\* in collections, no pending timer, no file <name>.json.
DropRemovesCollection ==
    [][Drop(Users)
           => /\ last'.success
              /\ Users \notin DOMAIN collections'
              /\ Users \notin timers' \cup saveQueue'
              /\ Users \notin DOMAIN disk']_vars

\* what the adapter holds of a collection: its documents, its timer and
\* its file
Holding(name) ==
    [loaded |-> name \in DOMAIN collections,
     docs |-> Docs(name),
     timer |-> name \in timers,
     file |-> IF name \in DOMAIN disk THEN <<disk[name]>> ELSE <<>>]

\* C16: db.dropCollection(name) leaves collection name without in-memory
\* state and without file, and every other collection as it was, whatever
\* collection the latest request was for.
DropCollectionDropsNamed ==
    [][\A name \in {Users, Posts} :
           DropCollection(name)
               => /\ name \notin DOMAIN collections'
                  /\ name \notin DOMAIN disk'
                  /\ \A other \in {Users, Posts} \ {name} :
                         Holding(other)' = Holding(other)]_vars

\* C17: a write of the caller into a document that find, findOne, findById
\* or updateById returned leaves the documents of the collection as they
\* were.
ReadsReturnCopies ==
    [][(\E i \in 1..MaxDocs : CallerWrites(i))
           => Docs(Users)' = Docs(Users)]_vars

\* C18: a projection whose values are 0 or false removes the fields it
\* names, and only them, from every document find returns.
ExclusionRemovesNamedFields ==
    \A options \in {FieldsA0, FieldsAFalse} :
        LET r == findWith(World, Users, NoFilter, options)
        IN  /\ Len(r.resp.docs) = Len(Data(Users))
            /\ \A i \in 1..Len(r.resp.docs) :
                   r.w.heap[r.resp.docs[i]] = Del(heap[Data(Users)[i]], "a")

\* options.skip and options.limit as numbers, 0 for no skip
SkipOf(options) ==
    IF Has(options.v, "skip") THEN Get(options.v, "skip").v ELSE 0
LimitOf(options) == Get(options.v, "limit").v

\* C19: find filters, sorts, skips and limits in this order: with a skip S
\* and a numeric limit N it returns the N documents that follow the first
\* S of the sorted matches, min(N, max(0, matches - S)) of them.
PipelineOrderAndSize ==
    \A options \in {Limit0, Skip1Limit1, SortADesc} :
        LET r == findWith(World, Users, NoFilter, options)
            matches == Len(Data(Users))
            rest == IF matches > SkipOf(options) THEN matches - SkipOf(options)
                    ELSE 0
        IN  /\ Len(r.resp.docs)
                   = (IF LimitOf(options) < rest THEN LimitOf(options) ELSE rest)
            /\ r.resp.docs
                   = SliceTo(SliceFrom(Sorted(heap, Data(Users),
                                              Get(options.v, "sort")),
                                       SkipOf(options)),
                             LimitOf(options))

\* C20: findOne(F, options) answers with element 0 of the data of
\* find(F, options), the first match in the order of insertion when
\* options has no sort, and with a failure when find returns no document.
FindOneIsFirstOfFind ==
    \A F \in {NoFilter, FilterA1}, options \in {NoOptions, SortADesc} :
        LET f == findWith(World, Users, F, options)
            g == findOne(World, Users, F, options)
        IN  IF f.resp.docs = <<>> THEN ~g.resp.success
            ELSE g.resp.success /\ g.resp.docs = <<f.resp.docs[1]>>

Untouched(name) ==
    /\ Docs(name)' = Docs(name)
    /\ name \in DOMAIN collections
           => /\ collections'[name].idIndex = collections[name].idIndex
              /\ collections'[name].indexes = collections[name].indexes
              /\ collections'[name].dirty = collections[name].dirty
    /\ (name \in timers') = (name \in timers)

\* C22: updateById and deleteById with an id that no document of the
\* collection has answer success false with the code 404 and leave data,
\* idIndex, the indexes, dirty and the timer as they were.
UnknownIdNotFound ==
    [][\A id \in Ids :
           (/\ \/ \E u \in {SetA2, SetIdY} : UpdateById(Users, id, u)
               \/ DeleteById(Users, id)
            /\ \A i \in 1..Len(IdsOf(Users)) : IdsOf(Users)[i] # id)
               => /\ ~last'.success
                  /\ last'.code = 404
                  /\ Untouched(Users)]_vars

\* the definition def (fields, in their order, with their directions) is
\* the definition of a registered index
Registered(name, def) ==
    /\ name \in DOMAIN collections
    /\ \E x \in 1..Len(collections[name].indexes) :
           /\ collections[name].indexes[x].fields = [i \in 1..Len(def) |-> def[i].k]
           /\ collections[name].indexes[x].orders = [i \in 1..Len(def) |-> def[i].v]

\* C23: createIndex with a definition that is registered answers success
\* false with the code 409 and leaves the indexes as they are; with a new
\* definition it registers one more index, which holds every document
\* whose indexed fields are all defined, and no other.
CreateIndexOnceOnly ==
    [][\A def \in {IndexAB, IndexB, IndexBDesc, IndexOneName} :
           CreateIndex(Users, def)
               => IF Registered(Users, def)
                  THEN /\ ~last'.success
                       /\ last'.code = 409
                       /\ collections'[Users].indexes = collections[Users].indexes
                  ELSE /\ last'.success
                       /\ Registered(Users, def)'
                       /\ Len(collections'[Users].indexes)
                              = (IF Users \in DOMAIN collections
                                 THEN Len(collections[Users].indexes) ELSE 0) + 1
                       /\ LET new == collections'[Users].indexes[
                                         Len(collections'[Users].indexes)]
                          IN  /\ new.fields = [i \in 1..Len(def) |-> def[i].k]
                              /\ IndexConsistent(new, Docs(Users))]_vars

\* a field of the metadata block of a paginate envelope, undefined when
\* the envelope has no block
Meta(resp, field) ==
    IF resp.data.t = "object" THEN Get(resp.data.v, field) ELSE Undef

\* C24: paginate(F, {page, limit}) over T matching documents answers with
\* totalPages = ceil(T / limit), hasPrev = (page > 1) and hasNext =
\* (page < totalPages); a page from 1 to totalPages has startIndex, endIndex
\* and endIndex - startIndex + 1 documents, a page past the last one none.
PaginateMetadata ==
    \A page \in Pages, limit \in Limits :
        LET resp == paginate(World, Users, NoFilter, PageOptions(page, limit)).resp
            T == Len(Data(Users))
            totalPages == Ceil(T, limit)
            endIndex == IF page * limit < T THEN page * limit ELSE T
        IN  /\ Meta(resp, "totalPages") = Num(totalPages)
            /\ Meta(resp, "hasPrev") = Bool(page > 1)
            /\ Meta(resp, "hasNext") = Bool(page < totalPages)
            /\ page <= totalPages
                   => /\ Meta(resp, "startIndex") = Num((page - 1) * limit + 1)
                      /\ Meta(resp, "endIndex") = Num(endIndex)
                      /\ Len(resp.docs) = endIndex - (page - 1) * limit
            /\ page > totalPages => resp.docs = <<>>

\* the value at k is structurally equal to v, or is an array with an
\* element structurally equal to v
DeepEqualAt(doc, k, v) ==
    LET value == getValue(doc, k)
    IN  \/ value = v
        \/ value.t = "array" /\ \E i \in 1..Len(value.v) : value.v[i] = v

\* C25: for a filter {k: v} whose v is an array or a document without
\* operator keys, a document matches exactly when its value at k is
\* structurally equal to v or is an array that holds such an element.
DeepEqualityInFilters ==
    \A F \in {FilterNb1, FilterTags} :
        \A i \in 1..Len(Docs(Users)) :
            matchesFilter(Docs(Users)[i], F)
                = DeepEqualAt(Docs(Users)[i], F.v[1].k, F.v[1].v)

\* C26: after every write, failed part-way or not, a collection whose data
\* differs from its last snapshot is dirty, or has a save timer pending, or
\* has a save in flight.
MutationArmsPersister ==
    \A n \in DOMAIN collections :
        \/ Persisted(n)
        \/ collections[n].dirty
        \/ n \in timers
        \/ n \in isSaving

\* a save of n ends in this step without a rename: its write or its rename
\* was rejected
SaveFailed(n) ==
    /\ n \in DOMAIN saves
    /\ n \notin DOMAIN saves'
    /\ tmp' = tmp

\* C28: after a failed save of a collection, whoever started it, the
\* collection is dirty and a save timer is armed, and saveCollection(name)
\* does not answer success for it.
FailedSaveRetriedAndReported ==
    [][\A n \in DOMAIN collections :
           SaveFailed(n)
               => /\ collections'[n].dirty
                  /\ n \in timers'
                  /\ saves[n].by = "saveCollection" => ~last'.success]_vars

\* C27: while a save of a collection is in flight, a step other than
\* close() that finds the save timer of the collection pending leaves a
\* timer pending: the timer that fires during the save is armed again.
TimerRearmedWhileSaving ==
    [][\A n \in DOMAIN collections :
           (n \in timers /\ n \in isSaving /\ engine' = engine
                         /\ n \in DOMAIN collections')
               => n \in timers']_vars

\* C29: the text a save writes is the collection's data at the moment the
\* save started: it is taken when the collection enters isSaving, no later
\* step changes it, and the rename puts exactly that text in the file.
SnapshotIsDataAtSaveStart ==
    [][\A n \in DOMAIN collections \cup DOMAIN saves :
           /\ (n \notin isSaving /\ n \in isSaving')
                  => saves'[n].content = Snapshot(heap, collections[n].data)
           /\ (n \in isSaving /\ n \in isSaving')
                  => saves'[n].content = saves[n].content
           /\ (n \in DOMAIN saves /\ n \notin DOMAIN saves' /\ tmp' # tmp)
                  => disk'[n] = saves[n].content]_vars

\* a save has put its text in the file and a write that came after the
\* save started is in memory only
SnapshotOlderThanData ==
    /\ Users \in DOMAIN disk
    /\ Users \notin isSaving
    /\ Users \in DOMAIN collections
    /\ disk[Users] # Snapshot(heap, collections[Users].data)
    /\ disk[Users] # <<>>

\* the save timer of n expires in this step: it was pending and is not any
\* more, and the step is no request, no close() and no saveCollection(n)
TimerFired(n) ==
    /\ n \in timers
    /\ n \notin timers'
    /\ engine' = engine
    /\ last' = last
    /\ collections' = collections
    /\ ~(n \notin isSaving /\ n \in isSaving' /\ saves'[n].by = "saveCollection")

\* C30: the pending timer of a collection is always the one saveQueue
\* holds, which the next write cancels, so that one timer at most is
\* pending; and when the timer armed by a burst of writes expires, one save
\* starts whose text holds the documents as all these writes left them.
DebounceSavesBurst ==
    [][/\ timers' \subseteq saveQueue'
       /\ \A n \in DOMAIN collections :
              TimerFired(n)
                  => /\ n \notin isSaving
                     /\ n \in isSaving'
                     /\ saves'[n].content = Snapshot(heap, collections[n].data)]_vars

\* the keys of a document
Keys(doc) == {doc[j].k : j \in 1..Len(doc)}

\* every entry path: value of $set is what the document now holds at path
SetApplied(doc, u) ==
    \A j \in 1..Len(Get(u.v, "$set").v) :
        getValue(doc, Get(u.v, "$set").v[j].k) = Get(u.v, "$set").v[j].v

\* from d to d2 nothing but the leaf at path and updatedAt has changed
OnlyLeafChanged(d, d2, path) ==
    LET parts == split(path)
    IN  /\ \A k \in (Keys(d) \cup Keys(d2)) \ {parts[1], "updatedAt"} :
               Get(d2, k) = Get(d, k)
        /\ (Len(parts) = 2 /\ Get(d, parts[1]).t = "object")
               => /\ Get(d2, parts[1]).t = "object"
                  /\ \A k \in Keys(Get(d, parts[1]).v) \ {parts[2]} :
                         Get(Get(d2, parts[1]).v, k) = Get(Get(d, parts[1]).v, k)

\* C31: update(F, {$set: ...}) applies the $set to every document that
\* matches F and refreshes its updatedAt, changing no other field of it;
\* the other documents, the order, the ids and idIndex stay as they were;
\* when nothing matches it answers 404 and leaves the collection, dirty and
\* the timer alone.
UpdateModifiesExactlyMatches ==
    [][(/\ last'.op = "update"
        /\ Users \in DOMAIN collections
        /\ Truthy(Get(Get(last'.args.v, "update").v, "$set")))
           => LET F == Get(last'.args.v, "filters")
                  u == Get(last'.args.v, "update")
                  before == Docs(Users)
                  after == Docs(Users)'
                  hit(i) == matchesFilter(before[i], F)
              IN  IF \E i \in 1..Len(before) : hit(i)
                  THEN /\ Len(after) = Len(before)
                       /\ collections'[Users].idIndex = collections[Users].idIndex
                       /\ \A i \in 1..Len(before) :
                              /\ Get(after[i], "id") = Get(before[i], "id")
                              /\ ~hit(i) => after[i] = before[i]
                              /\ hit(i) =>
                                     /\ SetApplied(after[i], u)
                                     /\ Get(after[i], "updatedAt")
                                            = Str(toISOString(clock))
                                     /\ \A j \in 1..Len(Get(u.v, "$set").v) :
                                            OnlyLeafChanged(before[i], after[i],
                                                Get(u.v, "$set").v[j].k)
                  ELSE /\ last'.code = 404
                       /\ collections' = collections
                       /\ timers' = timers]_vars

\* C32: $unset and $pull of a dotted path whose first segment is absent
\* from the document, or is not an object, leave every field of the
\* document other than updatedAt as it was.
UnsetPullCreateNothing ==
    [][(/\ last'.op = "update"
        /\ Users \in DOMAIN collections
        /\ Get(last'.args.v, "update") \in {UnsetNB, PullAB})
           => LET path == Get(last'.args.v, "update").v[1].v.v[1].k
                  before == Docs(Users)
                  after == Docs(Users)'
              IN  \A i \in 1..Len(before) :
                      Get(before[i], split(path)[1]).t # "object"
                          => Del(after[i], "updatedAt")
                                 = Del(before[i], "updatedAt")]_vars

\* C33: a document that matches a filter holding a logical operator beside
\* a field predicate satisfies the logical operator and the field
\* predicate.
FilterIsConjunction ==
    \A i \in 1..Len(Docs(Users)) :
        matchesFilter(Docs(Users)[i], FilterOrA2)
            => /\ matchesFilter(Docs(Users)[i], Obj(<<FilterOrA2.v[1]>>))
               /\ matchesFilter(Docs(Users)[i], Obj(<<FilterOrA2.v[2]>>))

\* C34: an operator map gives the same answer whatever the order of its
\* keys, on an absent value every operator but $exists: false and $ne
\* fails, and the operators after a $not entry count.
OperatorMapIsConjunction ==
    \A i \in 1..Len(Docs(Users)) :
        LET doc == Docs(Users)[i]
        IN  /\ matchesFilter(doc, FilterNeGt) = matchesFilter(doc, FilterGtNe)
            /\ Get(doc, "b").t = "undefined" => ~matchesFilter(doc, FilterNeGt)
            /\ matchesFilter(doc, FilterNotLt)
                   => matchesFilter(doc, Obj(<<E("a", Obj(<<E("$lt", Num(2))>>))>>))

\* C35: count, find, findOne, findById and paginate leave the documents of
\* a collection, their order, idIndex, the secondary indexes, dirty and the
\* pending timer as they were.
ReadsLeaveStoreAlone ==
    [][(/\ last'.op \in {"count", "find", "findOne", "findById", "paginate"}
        /\ Users \in DOMAIN collections)
           => /\ Docs(Users)' = Docs(Users)
              /\ collections'[Users].idIndex = collections[Users].idIndex
              /\ collections'[Users].indexes = collections[Users].indexes
              /\ collections'[Users].dirty = collections[Users].dirty
              /\ timers' = timers]_vars

\* C36: what find and count answer for a collection is made of the
\* documents of that collection that match the filter, whatever was read
\* from another collection before: no document of another collection is
\* returned.
CollectionsIsolated ==
    /\ (last.op = "find" /\ last.success)
           => \A i \in 1..Len(last.docs) :
                  /\ \E j \in 1..Len(collections[last.name].data) :
                         collections[last.name].data[j] = last.docs[i]
                  /\ \A n \in DOMAIN collections \ {last.name} :
                         \A j \in 1..Len(collections[n].data) :
                             collections[n].data[j] # last.docs[i]
    /\ last.op = "count"
           => last.data = Num(Len(Filtered(heap, collections[last.name].data,
                                           Get(last.args.v, "filters"))))

\* no write is made in this step: no request is answered, dirty is not
\* raised and no timer is armed
NoWrite ==
    /\ last' = last
    /\ timers' \subseteq timers
    /\ \A n \in DOMAIN collections :
           n \in DOMAIN collections'
               /\ (collections'[n].dirty => collections[n].dirty)

\* C37: once no write is made any more, the file of the collection comes
\* to hold its documents as they are in memory, with dirty false, however
\* the last writes were interleaved with a save or a timer.
EventuallyPersisted ==
    <>[][NoWrite]_vars
        => <>[](Users \in DOMAIN collections
                    => Persisted(Users) /\ ~collections[Users].dirty)

\* C38: a collection that was dropped and is not in memory has no file
\* once no save of it is in flight: the save that was in flight at the
\* drop does not put the file back.
DropIsFinal ==
    \A n \in {Users} :
        (n \notin DOMAIN collections /\ n \notin DOMAIN saves)
            => n \notin DOMAIN disk
(***************************************************************************)
(* The pool of the HTTPAdapter.                                            *)
(***************************************************************************)
\* the _execute calls that this step starts, and those that end in it
Started == http'.executing \ http.executing

Ended == http.executing \ http'.executing

\* a request waits although the pool has room
Waiting ==
    /\ http.activeRequests < poolSize
    /\ Len(http.requestQueue) > 0

PoolBounded ==
    /\ http.activeRequests \in 0..poolSize
    /\ http.activeRequests = Cardinality(http.executing)

\* what a step starts is the head of the queue, or the request just made
\* when nothing waits; what a step retries goes to the head of the queue
StartedInQueueOrder ==
    /\ \A req \in Started :
           /\ Started = {req}
           /\ IF Len(http.requestQueue) > 0
              THEN /\ req = Head(http.requestQueue)
                   /\ http'.requestQueue \in
                          { Tail(http.requestQueue),
                            Tail(http.requestQueue) \o
                                <<[id |-> Len(http.requests) + 1,
                                   retries |-> 0]>> }
              ELSE /\ req = [id |-> Len(http.requests) + 1, retries |-> 0]
                   /\ http'.requestQueue = <<>>
    /\ \A req \in Ended :
           \/ http'.requestQueue = http.requestQueue
           \/ http'.requestQueue =
                  <<[req EXCEPT !.retries = @ + 1]>> \o http.requestQueue

\* C39: activeRequests stays within 0..poolSize, the requests are started
\* in the order of the queue with a retried request at its head, and when
\* the pool has room while a request waits, a request is started later on
\* (the wait ends, and it ends only in a step that starts a request)
PoolStartsInOrder ==
    /\ []PoolBounded
    /\ [][StartedInQueueOrder]_vars
    /\ [][Waiting /\ ~Waiting' => Started # {}]_vars
    /\ Waiting ~> ~Waiting

\* a request was retried and started again ahead of one made before the
\* retry, while the pool was full
RetriedAheadOfWaiting ==
    /\ \E req \in http.executing : req.retries > 0
    /\ http.activeRequests = poolSize
    /\ Len(http.requestQueue) > 0
(***************************************************************************)
(* The retries of the HTTPAdapter.                                         *)
(***************************************************************************)
\* the errors the retry is meant for: the timeout of the request, and the
\* socket and dns errors ECONNRESET, ECONNREFUSED, EAI_AGAIN
RetryableError(outcome) ==
    /\ ~outcome.ok
    /\ \/ outcome.message = "Request timeout"
       \/ outcome.code \in {"ECONNRESET", "ECONNREFUSED", "EAI_AGAIN"}

\* the step retries req: it is back in the queue with one more retry
Retried(req) ==
    /\ req \in Ended
    /\ http'.requestQueue # http.requestQueue

ExecutedAtMost ==
    \A id \in DOMAIN http.requests :
        /\ http.requests[id].executions <= maxRetries + 1
        /\ http.requests[id].calls <= 1
        /\ http.requests[id].calls = 1 <=> http.requests[id].state # "pending"

\* what the end of an _execute call does to the promise of its request,
\* and that nothing else touches a promise
SettledByOutcome ==
    /\ \A req \in Ended :
           LET promise == http'.requests[req.id] IN
           /\ http.requests[req.id].state = "pending"
           /\ Retried(req) => RetryableError(http'.outcome)
           /\ IF http'.outcome.ok
              THEN promise.state = "resolved"
              ELSE IF RetryableError(http'.outcome) /\ req.retries < maxRetries
              THEN promise.state = "pending" /\ Retried(req)
              ELSE promise.state = "rejected" /\ ~Retried(req)
    /\ \A id \in DOMAIN http.requests :
           http'.requests[id].state # http.requests[id].state
               => \E req \in Ended : req.id = id

EverySettled ==
    \A id \in 1..MaxRequests :
        (id \in DOMAIN http.requests) ~>
            (/\ id \in DOMAIN http.requests
             /\ http.requests[id].state # "pending")

\* C40: a request is executed at most maxRetries + 1 times, is retried only
\* after a timeout, ECONNRESET, ECONNREFUSED or EAI_AGAIN, and its promise
\* is settled exactly once: resolved by the first attempt that succeeds,
\* rejected after an error of another kind or after the last retry has
\* failed; when every attempt ends, every request is settled in the end
RetrySettlesOnce ==
    /\ []ExecutedAtMost
    /\ [][SettledByOutcome]_vars
    /\ EverySettled

====
